---- MODULE Spec2Model ----
(***************************************************************************)
(* Subscription ledger of StellarSwipe-Backends: tiers, user               *)
(* subscriptions, payment verification and the renewal job; and the        *)
(* support tickets of TicketService.                                       *)
(*                                                                         *)
(* A request handler is an async function: every `await` on the database   *)
(* or on Horizon is a point where other handlers run.  Each handler is     *)
(* therefore a small process: one action per database statement (or        *)
(* transaction, or network call) together with the synchronous code that   *)
(* follows it up to the next await.  In-memory entities read by a handler  *)
(* are kept in the handler's record and are written back by save(), which  *)
(* makes the stored row equal to the in-memory entity.                     *)
(*                                                                         *)
(* Money is counted in units of 10^-7 USDC (the 7 fractional digits of     *)
(* the decimal columns), time in days.                                     *)
(***************************************************************************)
EXTENDS Integers, Sequences, FiniteSets, TLC

VARIABLES
  tiers,   \* table subscription_tiers: sequence of rows, the id is the index
  subs,    \* table user_subscriptions: sequence of rows, the id is the index
  procs,   \* the handlers in flight: position and in-memory entities of each
  now,     \* the wall clock, in days
  resp,    \* the response (or fault) of the handler that finished in the last step
  env,     \* the environment: how many more requests and job runs it starts
           \* (budget) and how many handlers it lets run at once (slots)
  tickets  \* TicketService's Map of support tickets, in order of creation

vars == <<tiers, subs, procs, now, resp, env, tickets>>

\* ------------------------------------------------------------------ bounds
MaxTiers == 2
MaxSubs == 3
MaxProcs == 3
MaxDay == 60
MaxFailCount == 4
MaxRenewals == 2
\* requests per behaviour and handlers at once, of each specification
MaxCalls == 3
MaxSlots == 2
MaxSubscribeCalls == 3
MaxSeqCalls == 6
MaxSeqTierCalls == 4
MaxRaceCalls == 3
\* gross amounts of the revenue split: 0 .. MaxGross units of 10^-7 USDC
MaxGross == 150
\* requests that change the ledger in AccessSpec
MaxAccessCalls == 2
\* expected amounts of VerifySpec: up to MaxOffset units around 10.0000000
MaxOffset == 2
\* requests of UpdateRaceSpec
MaxUpdateRaceCalls == 2
\* requests of OwnerSpec
MaxOwnerCalls == 2
\* requests of RenewRaceSpec
MaxRenewRaceCalls == 3
\* requests of CountSpec
MaxCountCalls == 3
\* requests of RevenueSpec
MaxRevenueCalls == 3
\* tickets of TicketSpec and notes on each
MaxTickets == 1
MaxNotes == 2
\* job runs of SweepSpec, and the hours its clock runs
MaxSweepCalls == 2
MaxSweepHours == 26

\* ------------------------------------------------------- program constants
MAX_PAYMENT_FAILURES == 3
BILLING_CYCLE_DAYS == 30
RENEWAL_NOTIFICATION_DAYS == 3

\* ------------------------------------------------------------ input domains
Procs == 1..MaxProcs
Users == {"u1", "u2", "u3"}
Providers == {"p1", "p2"}
\* JavaScript's undefined, and the NULL of a column (a date column: NoDate)
Undef == "undefined"
Null == "null"
NoDate == -1
\* signalLimit null (unlimited): a limit that is set is at least 1
NoLimit == 0
Levels == {"FREE", "BASIC"}
\* dto.price: 0 and 10 USDC
DtoPrices == {0, 100000000}
TickDays == {30}
Reasons == {"too expensive"}
TxHashes == {"txU1", "txU2", "txU3", "txBad"}

IdleProc == [pc |-> "idle"]
NoResp == [op |-> "none", res |-> "none", id |-> 0]
Resp(op, res, id) == [op |-> op, res |-> res, id |-> id]

\* A new request (or job run) starts in the first free handler slot (the
\* slots are anonymous).
FreeSlot(p) == /\ procs[p].pc = "idle"
               /\ \A q \in Procs : q < p => procs[q].pc # "idle"
               /\ p <= env.slots
               /\ env.budget > 0
               /\ env' = [env EXCEPT !.budget = @ - 1]

InFlight(pcs) == Cardinality({p \in Procs : procs[p].pc \in pcs})

\* ---------------------------------------------------------------- users
\* users.walletAddress of the provider's user row (p2 has none).
ProviderWallet(providerId) == IF providerId = "p1" THEN "GP1" ELSE Undef
\* The wallet a subscriber sends as dto.subscriberWallet.
UserWallet(userId) ==
  CASE userId = "u1" -> "GU1" [] userId = "u2" -> "GU2" [] OTHER -> "GU3"

\* ================================================================ TIERS
\* Column defaults of a new SubscriptionTier row plus the fields createTier sets.
NewTier(providerId, level, price) ==
  [providerId |-> providerId, level |-> level, price |-> price,
   signalLimit |-> NoLimit,
   active |-> TRUE, acceptingNewSubscribers |-> TRUE,
   subscriberCount |-> 0, totalRevenue |-> 0]

TierIds == 1..MaxTiers

\* A variant of the ownership check that lets every caller pass;
\* C26_ForbiddenChangesNothing tells it from the code.
NotOwnerNever(ownerId, callerId) ==
  FALSE

\* The ownership check of updateTier, cancelTier and cancelSubscription: the
\* caller is not the row's owner.
NotOwner(ownerId, callerId) ==
  ownerId # callerId

TierExists(t) == t \in 1..Len(tiers)

ActiveFreeTiers(providerId) ==
  {t \in 1..Len(tiers) : /\ tiers[t].providerId = providerId
                         /\ tiers[t].level = "FREE"
                         /\ tiers[t].active}

\* createTier's two price rules, after the FREE-uniqueness lookup.
CreateTierPriceError(level, price) ==
  \/ (level = "FREE" /\ price # 0)
  \/ (level # "FREE" /\ price <= 0)

\* createTier: the findOne for an existing active FREE tier (FREE only), the
\* price rules, and for a paid tier (no lookup) the save as well.
CreateTierCall(p, providerId, level, price) ==
  /\ FreeSlot(p)
  /\ Len(tiers) + InFlight({"createTier_save"}) < MaxTiers
  /\ IF level = "FREE"
       THEN /\ UNCHANGED tiers
            /\ IF ActiveFreeTiers(providerId) # {}
                 THEN /\ resp' = Resp("createTier", "Conflict", 0)
                      /\ UNCHANGED procs
                 ELSE IF CreateTierPriceError(level, price)
                 THEN /\ resp' = Resp("createTier", "BadRequest", 0)
                      /\ UNCHANGED procs
                 ELSE /\ procs' = [procs EXCEPT ![p] =
                            [pc |-> "createTier_save", providerId |-> providerId,
                             level |-> level, price |-> price]]
                      /\ resp' = NoResp
       ELSE IF CreateTierPriceError(level, price)
         THEN /\ resp' = Resp("createTier", "BadRequest", 0)
              /\ UNCHANGED <<tiers, procs>>
         ELSE /\ tiers' = Append(tiers, NewTier(providerId, level, price))
              /\ resp' = Resp("createTier", "ok", Len(tiers) + 1)
              /\ UNCHANGED procs
  /\ UNCHANGED <<subs, now, tickets>>

\* createTier: tierRepo.save of the FREE tier.
CreateTierSave(p) ==
  /\ procs[p].pc = "createTier_save"
  /\ UNCHANGED env
  /\ tiers' = Append(tiers, NewTier(procs[p].providerId, procs[p].level, procs[p].price))
  /\ procs' = [procs EXCEPT ![p] = IdleProc]
  /\ resp' = Resp("createTier", "ok", Len(tiers) + 1)
  /\ UNCHANGED <<subs, now, tickets>>

\* The patches of UpdateTierDto that touch price, active or
\* acceptingNewSubscribers.  `has` names the fields that are not undefined; a
\* patch sets one field.
UpdateTierDtos ==
  {[has |-> {"price"}, price |-> x, active |-> TRUE, acceptingNewSubscribers |-> TRUE] :
      x \in DtoPrices}
  \cup {[has |-> {"active"}, price |-> 0, active |-> b, acceptingNewSubscribers |-> TRUE] :
      b \in BOOLEAN}
  \cup {[has |-> {"acceptingNewSubscribers"}, price |-> 0, active |-> TRUE,
         acceptingNewSubscribers |-> b] : b \in BOOLEAN}

\* updateTier's price-change guard.
PriceChangeRejected(tier, dto) ==
  /\ "price" \in dto.has
  /\ dto.price # tier.price
  /\ tier.subscriberCount > 0

\* Object.assign(tier, {...}) of updateTier.
AssignTierPatch(tier, dto) ==
  [tier EXCEPT
     !.price = IF "price" \in dto.has THEN dto.price ELSE @,
     !.active = IF "active" \in dto.has THEN dto.active ELSE @,
     !.acceptingNewSubscribers =
        IF "acceptingNewSubscribers" \in dto.has THEN dto.acceptingNewSubscribers ELSE @]

\* updateTier: getTierOrFail, the ownership check, the price guard and the
\* Object.assign on the in-memory tier.
UpdateTierCall(p, tierId, providerId, dto) ==
  /\ FreeSlot(p)
  /\ UNCHANGED <<tiers, subs, now, tickets>>
  /\ IF ~TierExists(tierId)
       THEN resp' = Resp("updateTier", "NotFound", tierId) /\ UNCHANGED procs
     ELSE IF NotOwner(tiers[tierId].providerId, providerId)
       THEN resp' = Resp("updateTier", "Forbidden", tierId) /\ UNCHANGED procs
     ELSE IF PriceChangeRejected(tiers[tierId], dto)
       THEN resp' = Resp("updateTier", "BadRequest", tierId) /\ UNCHANGED procs
     ELSE /\ procs' = [procs EXCEPT ![p] =
                [pc |-> "updateTier_save", tierId |-> tierId,
                 tier |-> AssignTierPatch(tiers[tierId], dto)]]
          /\ resp' = NoResp

\* updateTier: tierRepo.save(tier) writes the in-memory tier back.
UpdateTierSave(p) ==
  /\ procs[p].pc = "updateTier_save"
  /\ UNCHANGED env
  /\ tiers' = [tiers EXCEPT ![procs[p].tierId] = procs[p].tier]
  /\ procs' = [procs EXCEPT ![p] = IdleProc]
  /\ resp' = Resp("updateTier", "ok", procs[p].tierId)
  /\ UNCHANGED <<subs, now, tickets>>

\* cancelTier: getTierOrFail and the ownership check.
CancelTierCall(p, tierId, providerId) ==
  /\ FreeSlot(p)
  /\ UNCHANGED <<tiers, subs, now, tickets>>
  /\ IF ~TierExists(tierId)
       THEN resp' = Resp("cancelTier", "NotFound", tierId) /\ UNCHANGED procs
     ELSE IF NotOwner(tiers[tierId].providerId, providerId)
       THEN resp' = Resp("cancelTier", "Forbidden", tierId) /\ UNCHANGED procs
     ELSE /\ procs' = [procs EXCEPT ![p] = [pc |-> "cancelTier_revoke", tierId |-> tierId]]
          /\ resp' = NoResp

\* The rows an open transaction has updated: the database holds their row
\* locks until the transaction ends, and a statement of another handler that
\* writes one of them waits.
RowsLocked ==
  UNION {procs[q].revoked : q \in {r \in Procs : procs[r].pc = "cancelTier_deactivate"}}

\* A variant that writes through to the table at once, as a statement that
\* does not go through the transaction's manager does; C9_CancelTierAtomic
\* tells it from the code.
WriteThrough(rows, written) ==
  written

\* What the other handlers see of a table after a statement of an open
\* transaction has written to it (manager.update inside
\* dataSource.transaction): the table as it was; `written` shows at commit.
InTransaction(rows, written) ==
  rows

\* The WHERE clause of the cascade: the ACTIVE subscriptions of the tier.
ActiveOfTier(rows, tierId) ==
  {s \in 1..Len(rows) : rows[s].tierId = tierId /\ rows[s].status = "ACTIVE"}

\* The first statement of cancelTier's transaction: the selected subscriptions
\* are cancelled.
RevokeTierSubscriptions(rows, ids, at) ==
  [s \in 1..Len(rows) |->
     IF s \in ids
       THEN [rows[s] EXCEPT !.status = "CANCELLED",
                            !.cancellationReason = "Provider cancelled the subscription tier",
                            !.cancelledAt = at,
                            !.autoRenew = FALSE]
       ELSE rows[s]]

\* A variant that deactivates the tier and leaves its acceptingNewSubscribers
\* flag alone; C8_ClosedOnCancel tells it from the code.
DeactivateTierKeepingFlag(rows, tierId) ==
  [rows EXCEPT ![tierId].active = FALSE,
               ![tierId].subscriberCount = 0]

\* The second statement of cancelTier's transaction: the tier is deactivated.
DeactivateTier(rows, tierId) ==
  [rows EXCEPT ![tierId].active = FALSE,
               ![tierId].acceptingNewSubscribers = FALSE,
               ![tierId].subscriberCount = 0]

\* cancelTier: the transaction opens and its first statement runs.  It selects
\* the rows that are ACTIVE now and locks them; nothing shows to the other
\* handlers yet.
CancelTierRevoke(p) ==
  /\ procs[p].pc = "cancelTier_revoke"
  /\ UNCHANGED env
  /\ LET ids == ActiveOfTier(subs, procs[p].tierId)
     IN /\ ids \cap RowsLocked = {}
        /\ subs' = InTransaction(subs, RevokeTierSubscriptions(subs, ids, now))
        /\ procs' = [procs EXCEPT ![p] =
                       [pc |-> "cancelTier_deactivate", tierId |-> procs[p].tierId,
                        revoked |-> ids, at |-> now]]
  /\ resp' = NoResp
  /\ UNCHANGED <<tiers, now, tickets>>

\* cancelTier: the second statement runs and the transaction commits: what
\* both statements wrote shows together.  (A handler that dies before this
\* step leaves the transaction to be rolled back: Crash.)
CancelTierCommit(p) ==
  /\ procs[p].pc = "cancelTier_deactivate"
  /\ UNCHANGED env
  /\ subs' = RevokeTierSubscriptions(subs, procs[p].revoked, procs[p].at)
  /\ tiers' = DeactivateTier(tiers, procs[p].tierId)
  /\ procs' = [procs EXCEPT ![p] = IdleProc]
  /\ resp' = Resp("cancelTier", "ok", procs[p].tierId)
  /\ UNCHANGED <<now, tickets>>

\* ====================================================== PAYMENT VERIFICATION
USDC_ISSUER == "GISSUER"

Payment(code, issuer, from, to, amount) ==
  [type |-> "payment", asset_type |-> "credit_alphanum4", asset_code |-> code,
   asset_issuer |-> issuer, from |-> from, to |-> to, amount |-> amount]

\* What Horizon holds for each transaction hash: its operation records.
Ledger(txHash) ==
  CASE txHash = "txU1" -> <<Payment("USDC", USDC_ISSUER, "GU1", "GP1", 100000000)>>
    [] txHash = "txU2" -> <<[type |-> "create_account"],
                            Payment("USDC", USDC_ISSUER, "gu2", "GP1", 99999999)>>
    [] txHash = "txU3" -> <<Payment("USDC", "GFAKE", "GU3", "GP1", 100000000),
                            Payment("USDC", USDC_ISSUER, "GU3", "GP1", 100000000)>>
    [] txHash = "txBad" -> <<Payment("USDC", "GFAKE", "GU1", "GP1", 100000000)>>
    [] txHash = "txU1b" -> <<Payment("USDC", USDC_ISSUER, "GU1", "GP1", 100000000)>>
    [] txHash = "txU1c" -> <<Payment("USDC", USDC_ISSUER, "GU1", "GP1", 100000000)>>
    [] txHash = "txTwice" -> <<Payment("USDC", USDC_ISSUER, "GU1", "GP1", 50000000),
                               Payment("USDC", USDC_ISSUER, "GU1", "GP1", 100000000)>>
    [] OTHER -> <<>>

\* String.prototype.toLowerCase on the wallet addresses in use.
ToLowerCase(w) ==
  CASE w = "GU1" -> "gu1" [] w = "GU2" -> "gu2" [] w = "GU3" -> "gu3"
    [] w = "GP1" -> "gp1" [] OTHER -> w

TOLERANCE == 1

Invalid(amount, error) == [valid |-> FALSE, amount |-> amount, error |-> error]

\* A variant that looks at the asset code alone, not at the issuer;
\* C21_ValidOnlyForMatchingPayment tells it from the code.
IsUsdcOfAnyIssuer(op) ==
  /\ op.asset_type = "credit_alphanum4"
  /\ op.asset_code = "USDC"

\* isUsdc: the payment is in the configured stablecoin.
IsUsdc(op) ==
  /\ op.asset_type = "credit_alphanum4"
  /\ op.asset_code = "USDC"
  /\ op.asset_issuer = USDC_ISSUER

\* The loop of verifySubscriptionPayment over ops.records, from index i on.
RECURSIVE ScanOperations(_, _, _, _, _)
ScanOperations(ops, i, expectedAmount, senderWallet, receiverWallet) ==
  IF i > Len(ops)
    THEN Invalid(0, "No matching USDC payment operation found in transaction")
  ELSE LET op == ops[i] IN
    IF op.type # "payment"
      THEN ScanOperations(ops, i + 1, expectedAmount, senderWallet, receiverWallet)
    ELSE IF ~IsUsdc(op)
      THEN ScanOperations(ops, i + 1, expectedAmount, senderWallet, receiverWallet)
    ELSE IF ~(/\ ToLowerCase(op.from) = ToLowerCase(senderWallet)
              /\ ToLowerCase(op.to) = ToLowerCase(receiverWallet))
      THEN ScanOperations(ops, i + 1, expectedAmount, senderWallet, receiverWallet)
    ELSE IF op.amount >= expectedAmount - TOLERANCE
      THEN [valid |-> TRUE, amount |-> op.amount, error |-> Undef]
    ELSE Invalid(op.amount, "Insufficient payment")

\* A variant that accepts whatever the ledger holds;
\* C27_RejectedSubscribeChangesNothing tells it from the code.
VerifySubscriptionPaymentTrusting(network, txHash, expectedAmount, senderWallet, receiverWallet) ==
  IF network = "error"
    THEN Invalid(0, "Stellar network error")
    ELSE [valid |-> TRUE, amount |-> expectedAmount, error |-> Undef]

\* verifySubscriptionPayment: `network` is whether the Horizon calls answer
\* ("ok") or throw ("error"); a throw is caught and reported as invalid.
VerifySubscriptionPayment(network, txHash, expectedAmount, senderWallet, receiverWallet) ==
  IF network = "error"
    THEN Invalid(0, "Stellar network error")
    ELSE ScanOperations(Ledger(txHash), 1, expectedAmount, senderWallet, receiverWallet)

\* A variant that cuts the commission off after the 7th digit;
\* C13_SplitExact tells it from the code.
CalculateRevenueSplitTruncating(gross) ==
  LET commission == (gross * 2) \div 10
  IN [platformCommission |-> commission, providerEarnings |-> gross - commission]

\* calculateRevenueSplit: gross x 0.20 by toFixed(7) (big.js rounds half up),
\* and the rest.
CalculateRevenueSplit(gross) ==
  LET commission == (gross * 2 + 5) \div 10
  IN [platformCommission |-> commission, providerEarnings |-> gross - commission]

\* ======================================================== SUBSCRIPTIONS
SubExists(s) == s \in 1..Len(subs)

\* The row subscribe() creates inside its transaction.
NewSubscription(userId, tierId, tier, txHash, autoRenew, at, providerWallet) ==
  LET split == CalculateRevenueSplit(tier.price)
      periodEnd == at + BILLING_CYCLE_DAYS
  IN [userId |-> userId, tierId |-> tierId, providerId |-> tier.providerId,
      status |-> "ACTIVE",
      amountPaid |-> tier.price,
      platformCommission |-> split.platformCommission,
      providerEarnings |-> split.providerEarnings,
      stellarTxHash |-> IF tier.level = "FREE" THEN Null ELSE txHash,
      paymentStatus |-> "COMPLETED",
      periodStart |-> at, periodEnd |-> periodEnd,
      renewsAt |-> periodEnd - RENEWAL_NOTIFICATION_DAYS,
      subscriberWallet |-> UserWallet(userId),
      providerWallet |-> IF providerWallet = Undef THEN "" ELSE providerWallet,
      autoRenew |-> autoRenew,
      renewalCount |-> 0, paymentFailureCount |-> 0,
      lastFailureReason |-> Null, cancellationReason |-> Null, cancelledAt |-> NoDate]

SubscribePcs == {"subscribe_findExisting", "subscribe_findProvider",
                 "subscribe_verify", "subscribe_txn"}

\* subscribe: getTierOrFail and the availability check.
SubscribeCall(p, userId, tierId, txHash, autoRenew) ==
  /\ FreeSlot(p)
  /\ Len(subs) + InFlight(SubscribePcs) < MaxSubs
  /\ UNCHANGED <<tiers, subs, now, tickets>>
  /\ IF ~TierExists(tierId)
       THEN resp' = Resp("subscribe", "NotFound", tierId) /\ UNCHANGED procs
     ELSE IF ~tiers[tierId].active \/ ~tiers[tierId].acceptingNewSubscribers
       THEN resp' = Resp("subscribe", "BadRequest", tierId) /\ UNCHANGED procs
     ELSE /\ procs' = [procs EXCEPT ![p] =
                [pc |-> "subscribe_findExisting", userId |-> userId, tierId |-> tierId,
                 tier |-> tiers[tierId], txHash |-> txHash, autoRenew |-> autoRenew,
                 providerWallet |-> Undef, at |-> NoDate]]
          /\ resp' = NoResp

\* A variant of the duplicate check that looks for a SUSPENDED subscription;
\* C22_DuplicateRejected tells it from the code.
SuspendedSubscriptions(userId, tierId) ==
  {s \in 1..Len(subs) : /\ subs[s].userId = userId
                        /\ subs[s].tierId = tierId
                        /\ subs[s].status = "SUSPENDED"}

ActiveSubscriptions(userId, tierId) ==
  {s \in 1..Len(subs) : /\ subs[s].userId = userId
                        /\ subs[s].tierId = tierId
                        /\ subs[s].status = "ACTIVE"}

\* subscribe: the findOne for an ACTIVE subscription of (userId, tierId); for
\* a FREE tier the code then runs on to `now = new Date()`.
SubscribeFindExisting(p) ==
  /\ procs[p].pc = "subscribe_findExisting"
  /\ UNCHANGED env
  /\ UNCHANGED <<tiers, subs, now, tickets>>
  /\ IF ActiveSubscriptions(procs[p].userId, procs[p].tierId) # {}
       THEN /\ procs' = [procs EXCEPT ![p] = IdleProc]
            /\ resp' = Resp("subscribe", "Conflict", procs[p].tierId)
     ELSE IF procs[p].tier.level # "FREE"
       THEN /\ procs' = [procs EXCEPT ![p].pc = "subscribe_findProvider"]
            /\ resp' = NoResp
     ELSE /\ procs' = [procs EXCEPT ![p].pc = "subscribe_txn", ![p].at = now]
          /\ resp' = NoResp

\* subscribe: the provider's user row is read for its wallet.
SubscribeFindProvider(p) ==
  /\ procs[p].pc = "subscribe_findProvider"
  /\ UNCHANGED env
  /\ UNCHANGED <<tiers, subs, now, tickets>>
  /\ IF ProviderWallet(procs[p].tier.providerId) = Undef
       THEN /\ procs' = [procs EXCEPT ![p] = IdleProc]
            /\ resp' = Resp("subscribe", "BadRequest", procs[p].tierId)
       ELSE /\ procs' = [procs EXCEPT ![p].pc = "subscribe_verify",
                                      ![p].providerWallet =
                                         ProviderWallet(procs[p].tier.providerId)]
            /\ resp' = NoResp

\* subscribe: the payment is verified against the tier price read at the start.
SubscribeVerify(p, network) ==
  /\ procs[p].pc = "subscribe_verify"
  /\ UNCHANGED env
  /\ UNCHANGED <<tiers, subs, now, tickets>>
  /\ LET verification ==
           VerifySubscriptionPayment(network, procs[p].txHash, procs[p].tier.price,
                                     UserWallet(procs[p].userId), procs[p].providerWallet)
     IN IF ~verification.valid
          THEN /\ procs' = [procs EXCEPT ![p] = IdleProc]
               /\ resp' = Resp("subscribe", "BadRequest", procs[p].tierId)
          ELSE /\ procs' = [procs EXCEPT ![p].pc = "subscribe_txn", ![p].at = now]
               /\ resp' = NoResp

\* A variant that computes the count as it computes the revenue, from the tier
\* the handler read at its start; C1_NoLostIncrement tells it from the code.
TierAfterSubscribeReadThenWrite(row, tier) ==
  [row EXCEPT !.subscriberCount = tier.subscriberCount + 1,
              !.totalRevenue = tier.totalRevenue + tier.price]

\* The tier update of subscribe's transaction: subscriber_count + 1 is computed
\* by the database, totalRevenue from the tier the handler read at its start.
TierAfterSubscribe(row, tier) ==
  [row EXCEPT !.subscriberCount = @ + 1,
              !.totalRevenue = tier.totalRevenue + tier.price]

\* subscribe: the transaction inserts the subscription and updates the tier.
SubscribeTxn(p) ==
  /\ procs[p].pc = "subscribe_txn"
  /\ UNCHANGED env
  /\ subs' = Append(subs, NewSubscription(procs[p].userId, procs[p].tierId, procs[p].tier,
                                          procs[p].txHash, procs[p].autoRenew, procs[p].at,
                                          ProviderWallet(procs[p].tier.providerId)))
  /\ tiers' = [tiers EXCEPT ![procs[p].tierId] = TierAfterSubscribe(@, procs[p].tier)]
  /\ procs' = [procs EXCEPT ![p] = IdleProc]
  /\ resp' = Resp("subscribe", "ok", Len(subs) + 1)
  /\ UNCHANGED <<now, tickets>>

\* A variant that decrements without the floor; C24_CancelSubscriptionEffect
\* tells it from the code.
DecrementBelowZero(rows, tierId) ==
  [rows EXCEPT ![tierId].subscriberCount = @ - 1]

\* GREATEST("subscriber_count" - 1, 0), computed by the database.
DecrementSubscriberCount(rows, tierId) ==
  [rows EXCEPT ![tierId].subscriberCount = IF @ - 1 > 0 THEN @ - 1 ELSE 0]

\* cancelSubscription: getSubscriptionOrFail, the ownership and status checks
\* and the `updates` object, which Object.assign later puts on the entity.
CancelSubscriptionCall(p, subscriptionId, userId, reason, immediate) ==
  /\ FreeSlot(p)
  /\ UNCHANGED <<tiers, subs, now, tickets>>
  /\ IF ~SubExists(subscriptionId)
       THEN resp' = Resp("cancelSubscription", "NotFound", subscriptionId) /\ UNCHANGED procs
     ELSE IF NotOwner(subs[subscriptionId].userId, userId)
       THEN resp' = Resp("cancelSubscription", "Forbidden", subscriptionId) /\ UNCHANGED procs
     ELSE IF subs[subscriptionId].status \in {"CANCELLED", "EXPIRED"}
       THEN resp' = Resp("cancelSubscription", "BadRequest", subscriptionId)
            /\ UNCHANGED procs
     ELSE /\ procs' = [procs EXCEPT ![p] =
                [pc |-> IF immediate THEN "cancelSubscription_decrement"
                                     ELSE "cancelSubscription_save",
                 subscriptionId |-> subscriptionId,
                 sub |-> [subs[subscriptionId] EXCEPT
                            !.autoRenew = FALSE,
                            !.cancellationReason = reason,
                            !.cancelledAt = now,
                            !.status = IF immediate THEN "CANCELLED" ELSE @]]]
          /\ resp' = NoResp

\* cancelSubscription (immediate): the tier's subscriber count is decremented.
CancelSubscriptionDecrement(p) ==
  /\ procs[p].pc = "cancelSubscription_decrement"
  /\ UNCHANGED env
  /\ tiers' = DecrementSubscriberCount(tiers, procs[p].sub.tierId)
  /\ procs' = [procs EXCEPT ![p].pc = "cancelSubscription_save"]
  /\ resp' = NoResp
  /\ UNCHANGED <<subs, now, tickets>>

\* subscriptionRepo.save(entity): every column whose in-memory value differs
\* from the stored one is written, a property that is undefined is skipped.
SaveSubscription(row, entity) ==
  [entity EXCEPT
     !.lastFailureReason = IF @ = Undef THEN row.lastFailureReason ELSE @,
     !.cancellationReason = IF @ = Undef THEN row.cancellationReason ELSE @]

\* cancelSubscription: subscriptionRepo.save(sub).
CancelSubscriptionSave(p) ==
  /\ procs[p].pc = "cancelSubscription_save"
  /\ procs[p].subscriptionId \notin RowsLocked
  /\ UNCHANGED env
  /\ subs' = [subs EXCEPT ![procs[p].subscriptionId] = SaveSubscription(@, procs[p].sub)]
  /\ procs' = [procs EXCEPT ![p] = IdleProc]
  /\ resp' = Resp("cancelSubscription", "ok", procs[p].subscriptionId)
  /\ UNCHANGED <<tiers, now, tickets>>

\* renewSubscription: getSubscriptionOrFail.
RenewSubscriptionCall(p, subscriptionId, txHash) ==
  /\ FreeSlot(p)
  /\ UNCHANGED <<tiers, subs, now, tickets>>
  /\ IF ~SubExists(subscriptionId)
       THEN resp' = Resp("renewSubscription", "NotFound", subscriptionId) /\ UNCHANGED procs
       ELSE /\ procs' = [procs EXCEPT ![p] =
                  [pc |-> "renewSubscription_getTier", subscriptionId |-> subscriptionId,
                   txHash |-> txHash, sub |-> subs[subscriptionId]]]
            /\ resp' = NoResp

\* A variant of the guards that looks at the status alone;
\* C25_CancelledNeverRenews tells it from the code.
RenewalRefusedByStatus(sub) ==
  sub.status \notin {"ACTIVE", "SUSPENDED"}

\* renewSubscription's guards: autoRenew is off, or the status is neither
\* ACTIVE nor SUSPENDED.
RenewalRefused(sub) ==
  \/ ~sub.autoRenew
  \/ sub.status \notin {"ACTIVE", "SUSPENDED"}

\* renewSubscription: getTierOrFail, then the autoRenew and status checks.
RenewSubscriptionGetTier(p) ==
  /\ procs[p].pc = "renewSubscription_getTier"
  /\ UNCHANGED env
  /\ UNCHANGED <<tiers, subs, now, tickets>>
  /\ IF RenewalRefused(procs[p].sub)
       THEN /\ procs' = [procs EXCEPT ![p] = IdleProc]
            /\ resp' = Resp("renewSubscription", "BadRequest", procs[p].subscriptionId)
       ELSE /\ procs' = [procs EXCEPT ![p] =
                  [pc |-> "renewSubscription_verify",
                   subscriptionId |-> procs[p].subscriptionId,
                   txHash |-> procs[p].txHash, sub |-> procs[p].sub,
                   tier |-> tiers[procs[p].sub.tierId]]]
            /\ resp' = NoResp

\* A variant that suspends only above the limit (> for >=);
\* C10_ThirdFailureSuspends tells it from the code.
RenewalFailedAboveLimit(sub, error) ==
  [sub EXCEPT !.paymentFailureCount = @ + 1,
              !.lastFailureReason = error,
              !.paymentStatus = "FAILED",
              !.status = IF sub.paymentFailureCount + 1 > MAX_PAYMENT_FAILURES
                           THEN "SUSPENDED" ELSE @]

\* A variant that also stops the renewals and the reminders of a subscription
\* whose payment failed; C34_FailedRenewalFrame tells it from the code.
RenewalFailedStoppingRenewal(sub, error) ==
  [sub EXCEPT !.paymentFailureCount = @ + 1,
              !.lastFailureReason = error,
              !.paymentStatus = "FAILED",
              !.autoRenew = FALSE,
              !.renewsAt = NoDate,
              !.status = IF sub.paymentFailureCount + 1 >= MAX_PAYMENT_FAILURES
                           THEN "SUSPENDED" ELSE @]

\* The failure path's changes to the in-memory subscription.
RenewalFailed(sub, error) ==
  [sub EXCEPT !.paymentFailureCount = @ + 1,
              !.lastFailureReason = error,
              !.paymentStatus = "FAILED",
              !.status = IF sub.paymentFailureCount + 1 >= MAX_PAYMENT_FAILURES
                           THEN "SUSPENDED" ELSE @]

\* A variant that starts the new period at the time of the call;
\* C12_PeriodAnchoredAtOldEnd tells it from the code.
RenewalSucceededFromNow(sub, tier, txHash) ==
  LET split == CalculateRevenueSplit(tier.price)
      newPeriodStart == now
      newPeriodEnd == newPeriodStart + BILLING_CYCLE_DAYS
  IN [sub EXCEPT !.status = "ACTIVE",
                 !.paymentStatus = "COMPLETED",
                 !.stellarTxHash = txHash,
                 !.amountPaid = tier.price,
                 !.platformCommission = split.platformCommission,
                 !.providerEarnings = split.providerEarnings,
                 !.periodStart = newPeriodStart,
                 !.periodEnd = newPeriodEnd,
                 !.renewsAt = newPeriodEnd - RENEWAL_NOTIFICATION_DAYS,
                 !.renewalCount = @ + 1,
                 !.paymentFailureCount = 0,
                 !.lastFailureReason = Undef]

\* The success path's Object.assign on the in-memory subscription.
RenewalSucceeded(sub, tier, txHash) ==
  LET split == CalculateRevenueSplit(tier.price)
      newPeriodStart == sub.periodEnd
      newPeriodEnd == newPeriodStart + BILLING_CYCLE_DAYS
  IN [sub EXCEPT !.status = "ACTIVE",
                 !.paymentStatus = "COMPLETED",
                 !.stellarTxHash = txHash,
                 !.amountPaid = tier.price,
                 !.platformCommission = split.platformCommission,
                 !.providerEarnings = split.providerEarnings,
                 !.periodStart = newPeriodStart,
                 !.periodEnd = newPeriodEnd,
                 !.renewsAt = newPeriodEnd - RENEWAL_NOTIFICATION_DAYS,
                 !.renewalCount = @ + 1,
                 !.paymentFailureCount = 0,
                 !.lastFailureReason = Undef]

\* renewSubscription: the payment is verified; the in-memory subscription gets
\* the failure's or the success's changes.
RenewSubscriptionVerify(p, network) ==
  /\ procs[p].pc = "renewSubscription_verify"
  /\ UNCHANGED env
  /\ UNCHANGED <<tiers, subs, now, tickets>>
  /\ LET sub == procs[p].sub
         verification ==
           VerifySubscriptionPayment(network, procs[p].txHash, procs[p].tier.price,
                                     sub.subscriberWallet, sub.providerWallet)
     IN IF ~verification.valid
          THEN /\ sub.paymentFailureCount < MaxFailCount
               /\ procs' = [procs EXCEPT
                    ![p].sub = RenewalFailed(sub, verification.error),
                    ![p].pc = IF sub.paymentFailureCount + 1 >= MAX_PAYMENT_FAILURES
                                THEN "renewSubscription_suspend"
                                ELSE "renewSubscription_saveFailed"]
          ELSE /\ sub.renewalCount < MaxRenewals
               /\ procs' = [procs EXCEPT
                    ![p].sub = RenewalSucceeded(sub, procs[p].tier, procs[p].txHash),
                    ![p].pc = "renewSubscription_save"]
  /\ resp' = NoResp

\* AccessControlService.suspendSubscription: an update by id.
SuspendSubscription(rows, subscriptionId, reason) ==
  [rows EXCEPT ![subscriptionId].status = "SUSPENDED",
               ![subscriptionId].lastFailureReason = reason]

\* renewSubscription, failure path at the limit: accessControl.suspendSubscription.
RenewSubscriptionSuspend(p) ==
  /\ procs[p].pc = "renewSubscription_suspend"
  /\ procs[p].subscriptionId \notin RowsLocked
  /\ UNCHANGED env
  /\ subs' = SuspendSubscription(subs, procs[p].subscriptionId, "Payment failed 3 times")
  /\ procs' = [procs EXCEPT ![p].pc = "renewSubscription_saveFailed"]
  /\ resp' = NoResp
  /\ UNCHANGED <<tiers, now, tickets>>

\* renewSubscription, failure path: subscriptionRepo.save(sub), then the throw.
RenewSubscriptionSaveFailed(p) ==
  /\ procs[p].pc = "renewSubscription_saveFailed"
  /\ procs[p].subscriptionId \notin RowsLocked
  /\ UNCHANGED env
  /\ subs' = [subs EXCEPT ![procs[p].subscriptionId] = SaveSubscription(@, procs[p].sub)]
  /\ procs' = [procs EXCEPT ![p] = IdleProc]
  /\ resp' = Resp("renewSubscription", "BadRequest", procs[p].subscriptionId)
  /\ UNCHANGED <<tiers, now, tickets>>

\* renewSubscription, success path: subscriptionRepo.save(sub).
RenewSubscriptionSave(p) ==
  /\ procs[p].pc = "renewSubscription_save"
  /\ procs[p].subscriptionId \notin RowsLocked
  /\ UNCHANGED env
  /\ subs' = [subs EXCEPT ![procs[p].subscriptionId] = SaveSubscription(@, procs[p].sub)]
  /\ procs' = [procs EXCEPT ![p].pc = "renewSubscription_updateRevenue"]
  /\ resp' = NoResp
  /\ UNCHANGED <<tiers, now, tickets>>

\* renewSubscription, success path: totalRevenue is set from the tier the
\* handler read before the verification.
RenewSubscriptionUpdateRevenue(p) ==
  /\ procs[p].pc = "renewSubscription_updateRevenue"
  /\ UNCHANGED env
  /\ tiers' = [tiers EXCEPT ![procs[p].sub.tierId].totalRevenue =
                  procs[p].tier.totalRevenue + procs[p].tier.price]
  /\ procs' = [procs EXCEPT ![p] = IdleProc]
  /\ resp' = Resp("renewSubscription", "ok", procs[p].subscriptionId)
  /\ UNCHANGED <<subs, now, tickets>>

\* ============================================================ RENEWAL JOB
\* The ids of a set of rows, in id order.
RECURSIVE IdsFrom(_, _)
IdsFrom(ids, n) ==
  IF n > Len(subs) THEN <<>>
  ELSE IF n \in ids THEN <<n>> \o IdsFrom(ids, n + 1) ELSE IdsFrom(ids, n + 1)

\* A variant that selects on the period alone, whatever the status;
\* C17_SweepSkipsExpired tells it from the code.
GetExpiredSubscriptionsAnyStatus ==
  {s \in 1..Len(subs) : subs[s].periodEnd <= now}

\* getExpiredSubscriptions: ACTIVE or SUSPENDED rows with periodEnd <= now.
GetExpiredSubscriptions ==
  {s \in 1..Len(subs) : /\ subs[s].status \in {"ACTIVE", "SUSPENDED"}
                        /\ subs[s].periodEnd <= now}

\* One pass of a job's loop is done: on to the next row, or the job ends and
\* reports the number of rows it counted.
JobAdvance(p, op, count) ==
  IF Len(procs[p].todo) > 1
    THEN /\ procs' = [procs EXCEPT ![p].todo = Tail(@), ![p].pc = procs[p].loop,
                                   ![p].expiredCount = count]
         /\ resp' = NoResp
    ELSE /\ procs' = [procs EXCEPT ![p] = IdleProc]
         /\ resp' = Resp(op, "ok", count)

\* handleExpiredSubscriptions: the query for the expired rows.
HandleExpiredCall(p) ==
  /\ FreeSlot(p)
  /\ UNCHANGED <<tiers, subs, now, tickets>>
  /\ LET expired == IdsFrom(GetExpiredSubscriptions, 1)
     IN IF expired = <<>>
          THEN resp' = Resp("handleExpiredSubscriptions", "ok", 0) /\ UNCHANGED procs
          ELSE /\ procs' = [procs EXCEPT ![p] =
                     [pc |-> "handleExpired_update", loop |-> "handleExpired_update",
                      expiredCount |-> 0,
                      todo |-> [i \in 1..Len(expired) |->
                                  [id |-> expired[i], tierId |-> subs[expired[i]].tierId]]]]
               /\ resp' = NoResp

\* handleExpiredSubscriptions: the update by id of the row at the head of the list.
ExpireSubscription(rows, subscriptionId) ==
  [rows EXCEPT ![subscriptionId].status = "EXPIRED",
               ![subscriptionId].autoRenew = FALSE]

HandleExpiredUpdate(p) ==
  /\ procs[p].pc = "handleExpired_update"
  /\ Head(procs[p].todo).id \notin RowsLocked
  /\ UNCHANGED env
  /\ subs' = ExpireSubscription(subs, Head(procs[p].todo).id)
  /\ procs' = [procs EXCEPT ![p].pc = "handleExpired_decrement"]
  /\ resp' = NoResp
  /\ UNCHANGED <<tiers, now, tickets>>

\* handleExpiredSubscriptions: the raw UPDATE that decrements the tier's count.
HandleExpiredDecrement(p) ==
  /\ procs[p].pc = "handleExpired_decrement"
  /\ UNCHANGED env
  /\ tiers' = DecrementSubscriberCount(tiers, Head(procs[p].todo).tierId)
  /\ JobAdvance(p, "handleExpiredSubscriptions", procs[p].expiredCount + 1)
  /\ UNCHANGED <<subs, now, tickets>>

\* handleSuspendedSubscriptions: the query for the SUSPENDED rows.
HandleSuspendedCall(p) ==
  /\ FreeSlot(p)
  /\ UNCHANGED <<tiers, subs, now, tickets>>
  /\ LET suspended == IdsFrom({s \in 1..Len(subs) : subs[s].status = "SUSPENDED"}, 1)
     IN IF suspended = <<>>
          THEN resp' = Resp("handleSuspendedSubscriptions", "ok", 0) /\ UNCHANGED procs
          ELSE /\ procs' = [procs EXCEPT ![p] =
                     [pc |-> "handleSuspended_row", loop |-> "handleSuspended_row",
                      expiredCount |-> 0,
                      todo |-> [i \in 1..Len(suspended) |->
                                  [id |-> suspended[i],
                                   periodEnd |-> subs[suspended[i]].periodEnd]]]]
               /\ resp' = NoResp

\* handleSuspendedSubscriptions: one row of the loop, expired when the period
\* it was read with has passed, otherwise handed to the notifier.
HandleSuspendedRow(p) ==
  /\ procs[p].pc = "handleSuspended_row"
  /\ UNCHANGED env
  /\ IF Head(procs[p].todo).periodEnd < now
       THEN /\ Head(procs[p].todo).id \notin RowsLocked
            /\ subs' = [subs EXCEPT ![Head(procs[p].todo).id].status = "EXPIRED"]
       ELSE UNCHANGED subs
  /\ JobAdvance(p, "handleSuspendedSubscriptions", 0)
  /\ UNCHANGED <<tiers, now, tickets>>

\* handleExpiredSubscriptions: a statement of the loop's body throws (the
\* update of the row, or the decrement of the tier). The catch inside the loop
\* logs the error; the row is not counted and the loop goes on.
HandleExpiredFault(p) ==
  /\ procs[p].pc \in {"handleExpired_update", "handleExpired_decrement"}
  /\ UNCHANGED env
  /\ JobAdvance(p, "handleExpiredSubscriptions", procs[p].expiredCount)
  /\ UNCHANGED <<tiers, subs, now, tickets>>

\* handleSuspendedSubscriptions: a statement of the loop's body throws (the
\* update of the row, or notifyPaymentFailure). The loop has no try: the
\* handler rejects, and the rows that are left are not visited.
HandleSuspendedFault(p) ==
  /\ procs[p].pc = "handleSuspended_row"
  /\ UNCHANGED env
  /\ procs' = [procs EXCEPT ![p] = IdleProc]
  /\ resp' = Resp("handleSuspendedSubscriptions", "fault", Head(procs[p].todo).id)
  /\ UNCHANGED <<tiers, subs, now, tickets>>

\* ----------------------------------------------------------- reminder job
\* The reminder job tells the hour of the day, so where it runs the clock and
\* the dates of the rows count hours.
HoursPerDay == 24

\* dayEnd: 23:59:59.999 of the day of instant t, the last hour of that day.
DayEnd(t) == (t \div HoursPerDay) * HoursPerDay + (HoursPerDay - 1)

\* handleRenewalNotifications' query: ACTIVE rows with auto_renew whose
\* renews_at is BETWEEN now AND dayEnd.
DueSoon ==
  {s \in 1..Len(subs) : /\ subs[s].status = "ACTIVE"
                        /\ subs[s].autoRenew
                        /\ now <= subs[s].renewsAt
                        /\ subs[s].renewsAt <= DayEnd(now)}

\* handleRenewalNotifications: the query.
HandleRenewalNotificationsCall(p) ==
  /\ FreeSlot(p)
  /\ UNCHANGED <<tiers, subs, now, tickets>>
  /\ LET dueSoon == IdsFrom(DueSoon, 1)
     IN IF dueSoon = <<>>
          THEN resp' = Resp("handleRenewalNotifications", "ok", 0) /\ UNCHANGED procs
          ELSE /\ procs' = [procs EXCEPT ![p] =
                     [pc |-> "handleRenewal_notify", loop |-> "handleRenewal_notify",
                      expiredCount |-> 0,
                      todo |-> [i \in 1..Len(dueSoon) |-> [id |-> dueSoon[i]]]]]
               /\ resp' = NoResp

\* handleRenewalNotifications: sendRenewalNotification for the row at the head
\* of the list (it writes a log line), or its failure, which the catch inside
\* the loop logs; either way the loop goes on.
HandleRenewalNotify(p, sent) ==
  /\ procs[p].pc = "handleRenewal_notify"
  /\ UNCHANGED env
  /\ JobAdvance(p, "handleRenewalNotifications",
                procs[p].expiredCount + (IF sent THEN 1 ELSE 0))
  /\ UNCHANGED <<tiers, subs, now, tickets>>

\* ================================================================ ACCESS
\* A variant of the query without the condition on the period;
\* C15_AccessIffActiveUnexpired tells it from the code.
AccessCandidatesAnyPeriod(userId, providerId) ==
  {s \in 1..Len(subs) : /\ subs[s].userId = userId
                        /\ subs[s].providerId = providerId
                        /\ subs[s].status = "ACTIVE"}

\* The rows of checkAccess's query: the user's ACTIVE subscriptions to the
\* provider with periodEnd > NOW().
AccessCandidates(userId, providerId) ==
  {s \in 1..Len(subs) : /\ subs[s].userId = userId
                        /\ subs[s].providerId = providerId
                        /\ subs[s].status = "ACTIVE"
                        /\ subs[s].periodEnd > now}

\* A variant that orders by tier.price ASC; C16_MostExpensiveChosen tells it
\* from the code.
CheapestFirst(candidates) ==
  {s \in candidates :
     \A o \in candidates : tiers[subs[s].tierId].price <= tiers[subs[o].tierId].price}

\* ORDER BY tier.price DESC and getOne(): the row that comes first, any of
\* them when several tiers have the highest price (the price is a decimal
\* column, compared as a number).
MostExpensiveFirst(candidates) ==
  {s \in candidates :
     \A o \in candidates : tiers[subs[s].tierId].price >= tiers[subs[o].tierId].price}

\* checkAccess's result without a subscription.
AccessDenied(userId, providerId) ==
  [userId |-> userId, providerId |-> providerId, hasAccess |-> FALSE,
   subscription |-> 0, signalLimit |-> NoLimit]

\* checkAccess's result with the subscription the query returned:
\* signalLimit is tier.signalLimit ?? null of the joined tier.
AccessGranted(userId, providerId, s) ==
  [userId |-> userId, providerId |-> providerId, hasAccess |-> TRUE,
   subscription |-> s, signalLimit |-> tiers[subs[s].tierId].signalLimit]

\* checkAccess: one query, then the answer.
CheckAccess(userId, providerId) ==
  /\ LET candidates == AccessCandidates(userId, providerId)
     IN IF candidates = {}
          THEN resp' = Resp("checkAccess", AccessDenied(userId, providerId), 0)
          ELSE \E s \in MostExpensiveFirst(candidates) :
                 resp' = Resp("checkAccess", AccessGranted(userId, providerId, s), s)
  /\ UNCHANGED <<tiers, subs, procs, now, env, tickets>>

\* ======================================================= REVENUE SUMMARY
\* SUM(column) over a set of subscription rows.
RECURSIVE SumColumn(_, _)
SumColumn(rows, column) ==
  IF rows = {} THEN 0
  ELSE LET s == CHOOSE x \in rows : TRUE
       IN subs[s][column] + SumColumn(rows \ {s}, column)

\* getProviderRevenueSummary: for each tier of the provider the number of
\* ACTIVE subscriptions and the sums of amount_paid, platform_commission and
\* provider_earnings over its subscriptions with paymentStatus COMPLETED,
\* added up over the tiers.
GetProviderRevenueSummary(providerId) ==
  /\ LET own == {t \in 1..Len(tiers) : tiers[t].providerId = providerId}
         completed == {s \in 1..Len(subs) : /\ subs[s].tierId \in own
                                            /\ subs[s].paymentStatus = "COMPLETED"}
         active == {s \in 1..Len(subs) : /\ subs[s].tierId \in own
                                         /\ subs[s].status = "ACTIVE"}
     IN resp' = Resp("getProviderRevenueSummary",
                     [providerId |-> providerId,
                      totalRevenue |-> SumColumn(completed, "amountPaid"),
                      platformCommissionPaid |-> SumColumn(completed, "platformCommission"),
                      netEarnings |-> SumColumn(completed, "providerEarnings"),
                      activeSubscribers |-> Cardinality(active)],
                     0)
  /\ UNCHANGED <<tiers, subs, procs, now, env, tickets>>

\* =============================================================== TICKETS
\* TicketService keeps the support tickets in a Map in memory and its methods
\* are synchronous: a call is one step. A ticket's id is its index.
TicketStatuses == {"OPEN", "IN_PROGRESS", "PENDING_CUSTOMER", "RESOLVED", "CLOSED"}

\* @Body('status') is not validated: any string arrives, or none.
StatusInputs == TicketStatuses \cup {"REOPENED", Undef}

\* dto.priority, and SLA_HOURS of each in days (72 and 24 hours).
TicketPriorities == {"LOW", "MEDIUM"}

SlaDays(priority) == IF priority = "LOW" THEN 3 ELSE 1

\* dto.assignedAgentId
Agents == {"a1", Undef}

\* dto.isInternal of a note as it arrives.
IsInternalInputs == {"true", "false", Undef}

\* computeSlaDeadline
ComputeSlaDeadline(priority, from) == from + SlaDays(priority)

\* checkSlaBreached
CheckSlaBreached(ticket) ==
  IF ticket.status \in {"RESOLVED", "CLOSED"} THEN FALSE ELSE now > ticket.slaDeadline

\* toDto stores the flag on the ticket before it answers.
ToDto(ticket) == [ticket EXCEPT !.slaBreached = CheckSlaBreached(ticket)]

TicketExists(id) == id \in 1..Len(tickets)

\* create
CreateTicket(priority) ==
  /\ Len(tickets) < MaxTickets
  /\ tickets' = Append(tickets,
       ToDto([status |-> "OPEN", priority |-> priority, assignedAgentId |-> Undef,
              notes |-> <<>>, firstResponseAt |-> NoDate, resolvedAt |-> NoDate,
              closedAt |-> NoDate, slaDeadline |-> ComputeSlaDeadline(priority, now),
              slaBreached |-> FALSE, createdAt |-> now, updatedAt |-> now]))
  /\ resp' = Resp("create", "ok", Len(tickets) + 1)
  /\ UNCHANGED <<tiers, subs, procs, now, env>>

\* findOne
FindOneTicket(id) ==
  /\ IF ~TicketExists(id)
       THEN resp' = Resp("findOne", "NotFound", id) /\ UNCHANGED tickets
       ELSE /\ tickets' = [tickets EXCEPT ![id] = ToDto(@)]
            /\ resp' = Resp("findOne", "ok", id)
  /\ UNCHANGED <<tiers, subs, procs, now, env>>

\* updateTicket: priority and assignedAgentId of the dto (Undef: not given).
UpdateTicket(id, priority, assignedAgentId) ==
  /\ IF ~TicketExists(id)
       THEN resp' = Resp("updateTicket", "NotFound", id) /\ UNCHANGED tickets
       ELSE LET ticket == tickets[id]
                prioritised ==
                  IF priority # Undef /\ priority # ticket.priority
                    THEN [ticket EXCEPT
                            !.priority = priority,
                            !.slaDeadline = ComputeSlaDeadline(priority, ticket.createdAt)]
                    ELSE ticket
                assigned ==
                  IF assignedAgentId # Undef
                    THEN [prioritised EXCEPT !.assignedAgentId = assignedAgentId]
                    ELSE prioritised
            IN /\ tickets' = [tickets EXCEPT ![id] = ToDto([assigned EXCEPT !.updatedAt = now])]
               /\ resp' = Resp("updateTicket", "ok", id)
  /\ UNCHANGED <<tiers, subs, procs, now, env>>

\* A variant of the table in which a CLOSED ticket can be opened again;
\* C31_GuardedTransitions tells it from the code.
allowedTransitionsReopening(status) ==
  CASE status = "OPEN" -> {"IN_PROGRESS", "CLOSED"}
    [] status = "IN_PROGRESS" -> {"PENDING_CUSTOMER", "RESOLVED"}
    [] status = "PENDING_CUSTOMER" -> {"IN_PROGRESS", "CLOSED"}
    [] status = "RESOLVED" -> {"CLOSED", "IN_PROGRESS"}
    [] OTHER -> {"IN_PROGRESS"}

\* changeStatus: the table of allowed transitions.
allowedTransitions(status) ==
  CASE status = "OPEN" -> {"IN_PROGRESS", "CLOSED"}
    [] status = "IN_PROGRESS" -> {"PENDING_CUSTOMER", "RESOLVED"}
    [] status = "PENDING_CUSTOMER" -> {"IN_PROGRESS", "CLOSED"}
    [] status = "RESOLVED" -> {"CLOSED", "IN_PROGRESS"}
    [] OTHER -> {}

\* changeStatus
ChangeStatus(id, status) ==
  /\ IF ~TicketExists(id)
       THEN resp' = Resp("changeStatus", "NotFound", id) /\ UNCHANGED tickets
       ELSE IF status \notin allowedTransitions(tickets[id].status)
         THEN resp' = Resp("changeStatus", "BadRequest", id) /\ UNCHANGED tickets
         ELSE /\ tickets' = [tickets EXCEPT ![id] =
                   ToDto([@ EXCEPT
                            !.status = status,
                            !.resolvedAt = IF status = "RESOLVED" THEN now ELSE @,
                            !.closedAt = IF status = "CLOSED" THEN now ELSE @,
                            !.updatedAt = now])]
              /\ resp' = Resp("changeStatus", "ok", id)
  /\ UNCHANGED <<tiers, subs, procs, now, env>>

\* addNote: the note is stored with isInternal ?? false; the first note
\* whose dto.isInternal is falsy sets firstResponseAt and moves an OPEN ticket
\* to IN_PROGRESS.
AddNote(id, isInternal) ==
  /\ IF ~TicketExists(id)
       THEN resp' = Resp("addNote", "NotFound", id) /\ UNCHANGED tickets
       ELSE LET ticket == tickets[id]
                noted == [ticket EXCEPT !.notes = Append(@, isInternal = "true")]
                responded ==
                  IF ticket.firstResponseAt = NoDate /\ isInternal # "true"
                    THEN [noted EXCEPT
                            !.firstResponseAt = now,
                            !.status = IF @ = "OPEN" THEN "IN_PROGRESS" ELSE @]
                    ELSE noted
            IN /\ Len(ticket.notes) < MaxNotes
               /\ tickets' = [tickets EXCEPT ![id] = ToDto([responded EXCEPT !.updatedAt = now])]
               /\ resp' = Resp("addNote", "ok", id)
  /\ UNCHANGED <<tiers, subs, procs, now, env>>

\* assignAgent
AssignAgent(id, agentId) ==
  /\ IF ~TicketExists(id)
       THEN resp' = Resp("assignAgent", "NotFound", id) /\ UNCHANGED tickets
       ELSE /\ tickets' = [tickets EXCEPT ![id] =
                 ToDto([@ EXCEPT !.assignedAgentId = agentId, !.updatedAt = now])]
            /\ resp' = Resp("assignAgent", "ok", id)
  /\ UNCHANGED <<tiers, subs, procs, now, env>>

\* ============================================================ ENVIRONMENT
\* Time passes.
Tick(d) ==
  /\ now + d <= MaxDay
  /\ UNCHANGED env
  /\ now' = now + d
  /\ resp' = NoResp
  /\ UNCHANGED <<tiers, subs, procs, tickets>>

\* The server process dies (or a statement faults) while a handler waits: the
\* handler's remaining statements never run, and the database rolls back the
\* transaction the handler had open: what it wrote never shows.
Crash(p) ==
  /\ procs[p].pc # "idle"
  /\ UNCHANGED env
  /\ procs' = [procs EXCEPT ![p] = IdleProc]
  /\ resp' = Resp("crash", "fault", 0)
  /\ UNCHANGED <<tiers, subs, now, tickets>>

Init ==
  /\ tiers = <<>>
  /\ subs = <<>>
  /\ procs = [p \in Procs |-> IdleProc]
  /\ now = 0
  /\ resp = NoResp
  /\ tickets = <<>>
  /\ env = [budget |-> MaxCalls, slots |-> MaxSlots]

\* ------------------------------------------------------------ the actions
TierActions ==
  \/ \E p \in Procs, providerId \in Providers, level \in Levels, price \in DtoPrices :
       CreateTierCall(p, providerId, level, price)
  \/ \E p \in Procs : CreateTierSave(p)
  \/ \E p \in Procs, tierId \in TierIds, providerId \in Providers, dto \in UpdateTierDtos :
       UpdateTierCall(p, tierId, providerId, dto)
  \/ \E p \in Procs : UpdateTierSave(p)

CancelTierActions ==
  \/ \E p \in Procs, tierId \in TierIds, providerId \in Providers :
       CancelTierCall(p, tierId, providerId)
  \/ \E p \in Procs : CancelTierRevoke(p)
  \/ \E p \in Procs : CancelTierCommit(p)

SubscribeActions ==
  \/ \E p \in Procs, userId \in Users, tierId \in TierIds, txHash \in TxHashes,
        autoRenew \in BOOLEAN :
       SubscribeCall(p, userId, tierId, txHash, autoRenew)
  \/ \E p \in Procs : SubscribeFindExisting(p)
  \/ \E p \in Procs : SubscribeFindProvider(p)
  \/ \E p \in Procs, network \in {"ok", "error"} : SubscribeVerify(p, network)
  \/ \E p \in Procs : SubscribeTxn(p)

CancelSubscriptionActions ==
  \/ \E p \in Procs, subscriptionId \in 1..MaxSubs, userId \in Users, reason \in Reasons,
        immediate \in BOOLEAN :
       CancelSubscriptionCall(p, subscriptionId, userId, reason, immediate)
  \/ \E p \in Procs : CancelSubscriptionDecrement(p)
  \/ \E p \in Procs : CancelSubscriptionSave(p)

RenewActions ==
  \/ \E p \in Procs, subscriptionId \in 1..MaxSubs, txHash \in TxHashes :
       RenewSubscriptionCall(p, subscriptionId, txHash)
  \/ \E p \in Procs : RenewSubscriptionGetTier(p)
  \/ \E p \in Procs, network \in {"ok", "error"} : RenewSubscriptionVerify(p, network)
  \/ \E p \in Procs : RenewSubscriptionSuspend(p)
  \/ \E p \in Procs : RenewSubscriptionSaveFailed(p)
  \/ \E p \in Procs : RenewSubscriptionSave(p)
  \/ \E p \in Procs : RenewSubscriptionUpdateRevenue(p)

JobActions ==
  \/ \E p \in Procs : HandleExpiredCall(p)
  \/ \E p \in Procs : HandleExpiredUpdate(p)
  \/ \E p \in Procs : HandleExpiredDecrement(p)
  \/ \E p \in Procs : HandleSuspendedCall(p)
  \/ \E p \in Procs : HandleSuspendedRow(p)

Next ==
  \/ TierActions
  \/ CancelTierActions
  \/ SubscribeActions
  \/ CancelSubscriptionActions
  \/ RenewActions
  \/ JobActions
  \/ \E d \in TickDays : Tick(d)
  \/ \E p \in Procs : Crash(p)

Spec == Init /\ [][Next]_vars

Busy == {p \in Procs : procs[p].pc # "idle"}

\* --------------------------------------------------- focused specifications
\* Each is a part of Spec: some of its actions, from a state Spec reaches.

\* Providers set up tiers and users subscribe, from the empty ledger.
TierNext ==
  \/ TierActions
  \/ CancelTierActions
  \/ SubscribeActions
  \/ \E p \in Procs : Crash(p)

TierSpec == Init /\ [][TierNext]_vars

\* The same, one handler at a time and one request more.
SeqTierInit ==
  /\ tiers = <<>>
  /\ subs = <<>>
  /\ procs = [p \in Procs |-> IdleProc]
  /\ now = 0
  /\ resp = NoResp
  /\ tickets = <<>>
  /\ env = [budget |-> MaxSeqTierCalls, slots |-> 1]

SeqTierSpec == SeqTierInit /\ [][TierNext]_vars

\* A paid tier of p1 as createTier makes it, after n subscribes at day 0.
SeedTier(n) ==
  [NewTier("p1", "BASIC", 100000000) EXCEPT
     !.subscriberCount = n, !.totalRevenue = n * 100000000]

\* The subscription u1 holds after subscribing to that tier at day 0.
SeedSubscription(autoRenew) ==
  NewSubscription("u1", 1, NewTier("p1", "BASIC", 100000000), "txU1", autoRenew, 0, "GP1")

\* Subscribes alone, to tiers that were just created: up to MaxSubscribeCalls
\* of them, all at once.
SubscribeInit ==
  /\ tiers \in {<<NewTier("p1", "BASIC", 100000000)>>,
                <<NewTier("p1", "FREE", 0)>>,
                <<NewTier("p2", "FREE", 0), NewTier("p2", "BASIC", 100000000)>>}
  /\ subs = <<>>
  /\ procs = [p \in Procs |-> IdleProc]
  /\ now = 0
  /\ resp = NoResp
  /\ tickets = <<>>
  /\ env = [budget |-> MaxSubscribeCalls, slots |-> MaxProcs]

\* The transaction a user paid with.
OwnTx(userId) ==
  CASE userId = "u1" -> "txU1" [] userId = "u2" -> "txU2" [] OTHER -> "txU3"

\* Every user cites the transaction he paid with and leaves autoRenew at its
\* default.
SubscribeNext ==
  \/ \E p \in Procs, userId \in Users, tierId \in TierIds :
       SubscribeCall(p, userId, tierId, OwnTx(userId), TRUE)
  \/ \E p \in Procs : SubscribeFindExisting(p)
  \/ \E p \in Procs : SubscribeFindProvider(p)
  \/ \E p \in Procs, network \in {"ok", "error"} : SubscribeVerify(p, network)
  \/ \E p \in Procs : SubscribeTxn(p)

SubscribeSpec == SubscribeInit /\ [][SubscribeNext]_vars

\* The life of one subscription: the ledger after p1 created a paid tier and
\* u1 subscribed to it.
LifecycleInit(budget, slots) ==
  /\ tiers = <<SeedTier(1)>>
  /\ subs \in {<<SeedSubscription(TRUE)>>, <<SeedSubscription(FALSE)>>}
  /\ procs = [p \in Procs |-> IdleProc]
  /\ now = 0
  /\ resp = NoResp
  /\ tickets = <<>>
  /\ env = [budget |-> budget, slots |-> slots]

LifecycleNext ==
  \/ CancelTierActions
  \/ CancelSubscriptionActions
  \/ RenewActions
  \/ JobActions
  \/ \E d \in TickDays : Tick(d)
  \/ \E p \in Procs : Crash(p)

\* One handler at a time.
LifecycleSpec == LifecycleInit(MaxSeqCalls, 1) /\ [][LifecycleNext]_vars

\* That subscription after three renewals that cited txBad: the state
\* LifecycleSpec reaches by them.
SuspendedSubscription ==
  [SeedSubscription(TRUE) EXCEPT
     !.status = "SUSPENDED", !.paymentStatus = "FAILED",
     !.paymentFailureCount = MAX_PAYMENT_FAILURES,
     !.lastFailureReason = "No matching USDC payment operation found in transaction"]

\* Handlers overlap.
RaceInit ==
  /\ tiers = <<SeedTier(1)>>
  /\ subs \in {<<SeedSubscription(TRUE)>>, <<SuspendedSubscription>>}
  /\ procs = [p \in Procs |-> IdleProc]
  /\ now = 0
  /\ resp = NoResp
  /\ tickets = <<>>
  /\ env = [budget |-> MaxRaceCalls, slots |-> MaxSlots]

RaceSpec == RaceInit /\ [][LifecycleNext]_vars

\* Access checks along the life of two subscriptions: p1 created a tier at
\* 5.0000000 with signalLimit 10 and a tier at 10.0000000 without a limit, and
\* u1 subscribed to both at day 0; in the second start three renewals of the
\* first subscription have failed since.
CheapTier ==
  [NewTier("p1", "BASIC", 50000000) EXCEPT !.signalLimit = 10]

DearTier == NewTier("p1", "BASIC", 100000000)

AccessInit ==
  /\ tiers = <<[CheapTier EXCEPT !.subscriberCount = 1, !.totalRevenue = 50000000],
               [DearTier EXCEPT !.subscriberCount = 1, !.totalRevenue = 100000000]>>
  /\ subs \in {<<NewSubscription("u1", 1, CheapTier, "txU1", TRUE, 0, "GP1"),
                 NewSubscription("u1", 2, DearTier, "txU1", TRUE, 0, "GP1")>>,
               <<[NewSubscription("u1", 1, CheapTier, "txU1", TRUE, 0, "GP1") EXCEPT
                    !.status = "SUSPENDED", !.paymentStatus = "FAILED",
                    !.paymentFailureCount = MAX_PAYMENT_FAILURES,
                    !.lastFailureReason =
                       "No matching USDC payment operation found in transaction"],
                 NewSubscription("u1", 2, DearTier, "txU1", TRUE, 0, "GP1")>>}
  /\ procs = [p \in Procs |-> IdleProc]
  /\ now = 0
  /\ resp = NoResp
  /\ tickets = <<>>
  /\ env = [budget |-> MaxAccessCalls, slots |-> 1]

AccessNext ==
  \/ LifecycleNext
  \/ \E userId \in {"u1", "u2"}, providerId \in Providers : CheckAccess(userId, providerId)

AccessSpec == AccessInit /\ [][AccessNext]_vars

\* The revenue split alone, on gross amounts of at most 7 fractional digits:
\* the smallest ones, where the rounding shows, and 10.0000000.
Grosses == 0..MaxGross \cup {100000000}

CalculateRevenueSplitCall(gross) ==
  /\ resp' = Resp("calculateRevenueSplit", CalculateRevenueSplit(gross), gross)
  /\ UNCHANGED <<tiers, subs, procs, now, env, tickets>>

SplitNext == \E gross \in Grosses : CalculateRevenueSplitCall(gross)

SplitSpec == Init /\ [][SplitNext]_vars

\* updateTier and subscribe overlap on a paid tier that has no subscriber yet.
UpdateRaceInit ==
  /\ tiers = <<NewTier("p1", "BASIC", 100000000)>>
  /\ subs = <<>>
  /\ procs = [p \in Procs |-> IdleProc]
  /\ now = 0
  /\ resp = NoResp
  /\ tickets = <<>>
  /\ env = [budget |-> MaxUpdateRaceCalls, slots |-> MaxSlots]

UpdateRaceNext ==
  \/ \E p \in Procs, tierId \in TierIds, providerId \in Providers, dto \in UpdateTierDtos :
       UpdateTierCall(p, tierId, providerId, dto)
  \/ \E p \in Procs : UpdateTierSave(p)
  \/ SubscribeActions

UpdateRaceSpec == UpdateRaceInit /\ [][UpdateRaceNext]_vars

\* The handlers that check the caller against the owner, one at a time, on
\* the tier of p1 and the subscription of u1.
OwnerNext ==
  \/ \E p \in Procs, tierId \in TierIds, providerId \in Providers, dto \in UpdateTierDtos :
       UpdateTierCall(p, tierId, providerId, dto)
  \/ \E p \in Procs : UpdateTierSave(p)
  \/ CancelTierActions
  \/ CancelSubscriptionActions

OwnerSpec == LifecycleInit(MaxOwnerCalls, 1) /\ [][OwnerNext]_vars

\* The payment verification alone, on every transaction of the ledger, with
\* expected amounts around the amounts paid and wallets in either case.
VerifyAmounts == {0, 50000000} \cup (100000000 - MaxOffset)..(100000000 + MaxOffset)

VerifyWallets == {"GU1", "gu1", "GU2", "GU3", "GP1", "gp1"}

VerifySubscriptionPaymentCall(network, txHash, expectedAmount, senderWallet, receiverWallet) ==
  /\ resp' = Resp("verifySubscriptionPayment",
                  [network |-> network, txHash |-> txHash, expectedAmount |-> expectedAmount,
                   senderWallet |-> senderWallet, receiverWallet |-> receiverWallet,
                   result |-> VerifySubscriptionPayment(network, txHash, expectedAmount,
                                                        senderWallet, receiverWallet)],
                  0)
  /\ UNCHANGED <<tiers, subs, procs, now, env, tickets>>

VerifyNext ==
  \E network \in {"ok", "error"}, txHash \in TxHashes \cup {"txTwice", "txNone"},
     expectedAmount \in VerifyAmounts, senderWallet \in VerifyWallets,
     receiverWallet \in VerifyWallets :
    VerifySubscriptionPaymentCall(network, txHash, expectedAmount, senderWallet,
                                  receiverWallet)

VerifySpec == Init /\ [][VerifyNext]_vars

\* The three jobs alone, on the hours of their schedules. The clock counts
\* hours and starts at midnight of day 30; u1 and u2 hold subscriptions to
\* the tier of p1 that began at 03:00 or 09:00 of day 0 (periodEnd on day 30)
\* or of day 3 (renewsAt on day 30), some of them suspended since.
EVERY_DAY_AT_2AM == 2
EVERY_DAY_AT_6AM == 6
EVERY_6_HOURS == 6

SweepStart == BILLING_CYCLE_DAYS * HoursPerDay

SweepStarts == {3, 9, 3 * HoursPerDay + 3, 3 * HoursPerDay + 9}

SweepRow(userId, status, at) ==
  LET row == NewSubscription(userId, 1, NewTier("p1", "BASIC", 100000000),
                             OwnTx(userId), TRUE, 0, "GP1")
      dated == [row EXCEPT
                  !.periodStart = at,
                  !.periodEnd = at + BILLING_CYCLE_DAYS * HoursPerDay,
                  !.renewsAt = at + (BILLING_CYCLE_DAYS - RENEWAL_NOTIFICATION_DAYS)
                                      * HoursPerDay]
  IN IF status = "ACTIVE" THEN dated
     ELSE [dated EXCEPT
             !.status = "SUSPENDED", !.paymentStatus = "FAILED",
             !.paymentFailureCount = MAX_PAYMENT_FAILURES,
             !.lastFailureReason =
                "No matching USDC payment operation found in transaction"]

SweepInit ==
  /\ tiers = <<SeedTier(2)>>
  /\ subs \in {<<SweepRow("u1", st1, at1), SweepRow("u2", st2, at2)>> :
                 st1 \in {"ACTIVE", "SUSPENDED"}, st2 \in {"ACTIVE", "SUSPENDED"},
                 at1 \in SweepStarts, at2 \in SweepStarts}
  /\ procs = [p \in Procs |-> IdleProc]
  /\ now = SweepStart
  /\ resp = NoResp
  /\ tickets = <<>>
  /\ env = [budget |-> MaxSweepCalls, slots |-> 1]

\* An hour passes.
TickHour ==
  /\ now < SweepStart + MaxSweepHours
  /\ UNCHANGED env
  /\ now' = now + 1
  /\ resp' = NoResp
  /\ UNCHANGED <<tiers, subs, procs, tickets>>

\* @Cron: each job starts on the hours of its schedule.
SweepRunNext ==
  \/ \E p \in Procs : now % HoursPerDay = EVERY_DAY_AT_2AM /\ HandleExpiredCall(p)
  \/ \E p \in Procs : HandleExpiredUpdate(p)
  \/ \E p \in Procs : HandleExpiredDecrement(p)
  \/ \E p \in Procs : now % HoursPerDay = EVERY_DAY_AT_6AM /\ HandleRenewalNotificationsCall(p)
  \/ \E p \in Procs : HandleRenewalNotify(p, TRUE)
  \/ \E p \in Procs : now % EVERY_6_HOURS = 0 /\ HandleSuspendedCall(p)
  \/ \E p \in Procs : HandleSuspendedRow(p)
  \/ TickHour

\* The jobs, and the errors inside their loops.
SweepNext ==
  \/ SweepRunNext
  \/ \E p \in Procs : HandleExpiredFault(p)
  \/ \E p \in Procs : HandleRenewalNotify(p, FALSE)
  \/ \E p \in Procs : HandleSuspendedFault(p)

SweepSpec == SweepInit /\ [][SweepNext]_vars

\* The jobs keep running and meet no error: a job that can take a step does
\* not wait for ever, and the clock goes on.
SweepFairSpec == SweepInit /\ [][SweepRunNext]_vars /\ WF_vars(SweepRunNext)

\* Paid renewals that overlap each other and a subscribe: u1 renews the
\* seeded subscription, citing one of two payments of 10.0000000 he made to
\* p1, while u2 subscribes to the same tier; Horizon answers every call.
RenewalHashes == {"txU1b", "txU1c"}

RenewRaceInit ==
  /\ tiers = <<SeedTier(1)>>
  /\ subs = <<SeedSubscription(TRUE)>>
  /\ procs = [p \in Procs |-> IdleProc]
  /\ now = 0
  /\ resp = NoResp
  /\ tickets = <<>>
  /\ env = [budget |-> MaxRenewRaceCalls, slots |-> MaxSlots]

RenewRaceNext ==
  \/ \E p \in Procs, txHash \in RenewalHashes : RenewSubscriptionCall(p, 1, txHash)
  \/ \E p \in Procs : RenewSubscriptionGetTier(p)
  \/ \E p \in Procs : RenewSubscriptionVerify(p, "ok")
  \/ \E p \in Procs : RenewSubscriptionSave(p)
  \/ \E p \in Procs : RenewSubscriptionUpdateRevenue(p)
  \/ \E p \in Procs : SubscribeCall(p, "u2", 1, "txU2", TRUE)
  \/ \E p \in Procs : SubscribeFindExisting(p)
  \/ \E p \in Procs : SubscribeFindProvider(p)
  \/ \E p \in Procs : SubscribeVerify(p, "ok")
  \/ \E p \in Procs : SubscribeTxn(p)
  \/ \E d \in TickDays : Tick(d)

RenewRaceSpec == RenewRaceInit /\ [][RenewRaceNext]_vars

\* The ways out of ACTIVE and SUSPENDED, one handler at a time and every
\* handler running to its end: u1's subscription, as subscribe made it or
\* after three failed renewals, is cancelled by u1 or with the tier, or
\* expired by one of the jobs.
CountInit ==
  /\ tiers = <<SeedTier(1)>>
  /\ subs \in {<<SeedSubscription(TRUE)>>, <<SuspendedSubscription>>}
  /\ procs = [p \in Procs |-> IdleProc]
  /\ now = 0
  /\ resp = NoResp
  /\ tickets = <<>>
  /\ env = [budget |-> MaxCountCalls, slots |-> 1]

CountNext ==
  \/ CancelTierActions
  \/ CancelSubscriptionActions
  \/ JobActions
  \/ \E d \in TickDays : Tick(d)

CountSpec == CountInit /\ [][CountNext]_vars

\* The revenue summary between the renewals of u1's subscription, one
\* handler at a time.
RevenueNext ==
  \/ RenewActions
  \/ \E providerId \in Providers : Busy = {} /\ GetProviderRevenueSummary(providerId)
  \/ \E d \in TickDays : Tick(d)

RevenueSpec == LifecycleInit(MaxRevenueCalls, 1) /\ [][RevenueNext]_vars

\* The ticket service alone, from an empty Map.
TicketNext ==
  \/ \E priority \in TicketPriorities : CreateTicket(priority)
  \/ \E id \in 1..MaxTickets : FindOneTicket(id)
  \/ \E id \in 1..MaxTickets, priority \in TicketPriorities \cup {Undef}, agentId \in Agents :
       UpdateTicket(id, priority, agentId)
  \/ \E id \in 1..MaxTickets, status \in StatusInputs : ChangeStatus(id, status)
  \/ \E id \in 1..MaxTickets, isInternal \in IsInternalInputs : AddNote(id, isInternal)
  \/ \E id \in 1..MaxTickets : AssignAgent(id, "a1")
  \/ \E d \in TickDays : Tick(d)

TicketSpec == Init /\ [][TicketNext]_vars

\* ================================================================ CLAIMS
Quiescent == Busy = {}

SubscriptionsOf(t) == {s \in 1..Len(subs) : subs[s].tierId = t}

ProviderCancelled(row) ==
  /\ row.status = "CANCELLED"
  /\ row.cancellationReason = "Provider cancelled the subscription tier"

\* C1 (SubscribeSpec): however the subscribes to a tier overlap, the tier's
\* subscriberCount is the number of subscriptions they committed: no increment
\* is lost.
C1_NoLostIncrement ==
  \A t \in 1..Len(tiers) : tiers[t].subscriberCount = Cardinality(SubscriptionsOf(t))

\* Three distinct users subscribed to a paid tier, each having read the tier
\* before any of them committed (the revenue shows it), and the count is 3.
C1_ThreeAtOnce ==
  \E t \in 1..Len(tiers) :
    /\ Quiescent
    /\ Cardinality({subs[s].userId : s \in SubscriptionsOf(t)}) = 3
    /\ tiers[t].price > 0
    /\ tiers[t].totalRevenue = tiers[t].price
    /\ tiers[t].subscriberCount = 3

\* C2 (SubscribeSpec): when all subscribes have ended and those to a tier
\* came from N distinct users, the tier's totalRevenue is N times the tier
\* price.
C2_RevenueExact ==
  Quiescent =>
    \A t \in 1..Len(tiers) :
      LET N == Cardinality(SubscriptionsOf(t))
      IN Cardinality({subs[s].userId : s \in SubscriptionsOf(t)}) = N =>
           tiers[t].totalRevenue = N * tiers[t].price

\* C3 (SubscribeSpec): at most one ACTIVE subscription for each (userId, tierId).
C3_OneActivePerPair ==
  \A userId \in Users, t \in 1..Len(tiers) :
    Cardinality(ActiveSubscriptions(userId, t)) <= 1

\* C4 (RaceSpec): once a subscription is CANCELLED or EXPIRED, no step changes
\* its status.
C4_TerminalIsFinal ==
  [][\A s \in 1..Len(subs) :
       subs[s].status \in {"CANCELLED", "EXPIRED"} => subs'[s].status = subs[s].status]_vars

AllowedTransitions ==
  {<<"ACTIVE", "CANCELLED">>, <<"ACTIVE", "SUSPENDED">>, <<"ACTIVE", "EXPIRED">>,
   <<"SUSPENDED", "ACTIVE">>, <<"SUSPENDED", "EXPIRED">>}

\* C5 (LifecycleSpec): every change of a subscription's status is one of the
\* transitions of the state table, and a new subscription starts ACTIVE.
C5_OnlyTableTransitions ==
  [][/\ \A s \in 1..Len(subs) :
          subs'[s].status # subs[s].status =>
            <<subs[s].status, subs'[s].status>> \in AllowedTransitions
     /\ \A s \in (Len(subs) + 1)..Len(subs') : subs'[s].status = "ACTIVE"]_vars

\* C6 (SeqTierSpec): every provider has at most one active FREE tier.
C6_OneActiveFreeTier ==
  \A providerId \in Providers : Cardinality(ActiveFreeTiers(providerId)) <= 1

\* C7 (SeqTierSpec): every FREE tier has price 0 and every other tier a
\* price above 0.
C7_PriceMatchesLevel ==
  \A t \in 1..Len(tiers) :
    IF tiers[t].level = "FREE" THEN tiers[t].price = 0 ELSE tiers[t].price > 0

\* C8 as stated (SeqTierSpec): a tier on which cancelTier has succeeded (one
\* of its subscriptions carries the cascade's cancellation) is, whenever it
\* is inactive, closed to new subscribers and has subscriberCount 0.
C8_CancelledTierStaysClosed ==
  \A t \in 1..Len(tiers) :
    (\E s \in SubscriptionsOf(t) : ProviderCancelled(subs[s])) =>
      (~tiers[t].active =>
         ~tiers[t].acceptingNewSubscribers /\ tiers[t].subscriberCount = 0)

\* C8 amended (SeqTierSpec): in the state in which cancelTier answers with
\* success, the tier is inactive, closed to new subscribers and has
\* subscriberCount 0.
C8_ClosedOnCancel ==
  (resp.op = "cancelTier" /\ resp.res = "ok") =>
    /\ ~tiers[resp.id].active
    /\ ~tiers[resp.id].acceptingNewSubscribers
    /\ tiers[resp.id].subscriberCount = 0

\* cancelTier has just succeeded on a tier that had a subscriber.
C8_CancelledWithSubscriber ==
  /\ resp.op = "cancelTier" /\ resp.res = "ok"
  /\ \E s \in SubscriptionsOf(resp.id) : ProviderCancelled(subs[s])

\* C9 (RaceSpec): in every step, crashes included, the cascade and the
\* deactivation show together or not at all: the step in which cancelTier
\* commits cancels every subscription its cascade selected (autoRenew off,
\* cancelledAt set) and leaves the tier inactive with subscriberCount 0, and
\* no other step shows a cancellation of the cascade.
C9_CancelTierAtomic ==
  [][/\ \A p \in Procs :
          (procs[p].pc = "cancelTier_deactivate" /\ procs'[p].pc = "idle"
             /\ resp'.op = "cancelTier") =>
            /\ \A s \in procs[p].revoked : /\ ProviderCancelled(subs'[s])
                                           /\ ~subs'[s].autoRenew
                                           /\ subs'[s].cancelledAt # NoDate
            /\ ~tiers'[procs[p].tierId].active
            /\ tiers'[procs[p].tierId].subscriberCount = 0
     /\ \A t \in 1..Len(tiers) :
          (\E s \in SubscriptionsOf(t) :
             ~ProviderCancelled(subs[s]) /\ ProviderCancelled(subs'[s]))
            => resp' = Resp("cancelTier", "ok", t)]_vars

\* cancelTier has just committed while another handler was in flight: the
\* subscription is cancelled by the cascade and the tier is inactive.
C9_CascadeCommitted ==
  /\ resp.op = "cancelTier" /\ resp.res = "ok"
  /\ ~Quiescent
  /\ ~tiers[resp.id].active
  /\ \E s \in SubscriptionsOf(resp.id) :
       ProviderCancelled(subs[s]) /\ ~subs[s].autoRenew /\ subs[s].cancelledAt # NoDate

\* C10 (LifecycleSpec): every failed renewal adds one to paymentFailureCount;
\* the subscription is still ACTIVE when that makes 1 or 2 and SUSPENDED when
\* it makes 3.
C10_ThirdFailureSuspends ==
  [][\A p \in Procs :
       (/\ procs[p].pc = "renewSubscription_saveFailed"
        /\ resp' = Resp("renewSubscription", "BadRequest", procs[p].subscriptionId)) =>
         LET s == procs[p].subscriptionId
         IN /\ subs'[s].paymentFailureCount = subs[s].paymentFailureCount + 1
            /\ subs'[s].paymentFailureCount \in {1, 2} => subs'[s].status = "ACTIVE"
            /\ subs'[s].paymentFailureCount = 3 => subs'[s].status = "SUSPENDED"]_vars

\* The third of three failed renewals in a row has just been saved.
C10_SuspendedAfterThree ==
  /\ resp = Resp("renewSubscription", "BadRequest", 1)
  /\ now = 0
  /\ subs[1].renewalCount = 0
  /\ subs[1].paymentFailureCount = 3
  /\ subs[1].status = "SUSPENDED"

\* The step in which handler p saves a successful renewal.
RenewalSaved(p) ==
  /\ procs[p].pc = "renewSubscription_save"
  /\ procs'[p].pc = "renewSubscription_updateRevenue"

\* C11 (LifecycleSpec): the step that saves a successful renewal, of an ACTIVE
\* or of a SUSPENDED subscription, leaves the stored subscription with
\* paymentFailureCount 0, no lastFailureReason and status ACTIVE.
C11_RenewalResets ==
  [][\A p \in Procs :
       RenewalSaved(p) =>
         LET s == procs[p].subscriptionId
         IN /\ subs'[s].paymentFailureCount = 0
            /\ subs'[s].lastFailureReason = Null
            /\ subs'[s].status = "ACTIVE"]_vars

\* C12 (LifecycleSpec): the step that saves a successful renewal starts the
\* new period at the old periodEnd, ends it 30 days later, sets renewsAt 3
\* days before the new end and adds one to renewalCount, whatever the time.
C12_PeriodAnchoredAtOldEnd ==
  [][\A p \in Procs :
       RenewalSaved(p) =>
         LET s == procs[p].subscriptionId
         IN /\ subs'[s].periodStart = subs[s].periodEnd
            /\ subs'[s].periodEnd = subs[s].periodEnd + 30
            /\ subs'[s].renewsAt = subs'[s].periodEnd - 3
            /\ subs'[s].renewalCount = subs[s].renewalCount + 1]_vars

\* A renewal has just been saved 30 days after the period it renews ended:
\* the new period is the one that follows the old one, not one from today.
C12_LateRenewalSaved ==
  /\ now = 60
  /\ \E p \in Procs : /\ procs[p].pc = "renewSubscription_updateRevenue"
                      /\ procs[p].subscriptionId = 1
  /\ subs[1].renewalCount = 1
  /\ subs[1].periodStart = 30
  /\ subs[1].periodEnd = 60
  /\ subs[1].renewsAt = 57

\* C20 (LifecycleSpec): when the verification call of a renewal failed at the
\* network, the handler's remaining steps leave the stored subscription's
\* status, paymentFailureCount, paymentStatus, lastFailureReason and period
\* as they were.
C20_NetworkErrorKeepsState ==
  [][\A p \in Procs :
       (/\ procs[p].pc \in {"renewSubscription_suspend", "renewSubscription_saveFailed"}
        /\ procs[p].sub.lastFailureReason = "Stellar network error"
        /\ procs'[p].pc # procs[p].pc
        /\ resp'.op # "crash") =>
         LET s == procs[p].subscriptionId
         IN /\ subs'[s].status = subs[s].status
            /\ subs'[s].paymentFailureCount = subs[s].paymentFailureCount
            /\ subs'[s].paymentStatus = subs[s].paymentStatus
            /\ subs'[s].lastFailureReason = subs[s].lastFailureReason
            /\ subs'[s].periodStart = subs[s].periodStart
            /\ subs'[s].periodEnd = subs[s].periodEnd
            /\ subs'[s].renewsAt = subs[s].renewsAt]_vars

\* C13 (SplitSpec): for every gross amount, platformCommission is gross x 0.20
\* rounded to the 7th fractional digit (the nearest unit of 10^-7 to gross/5),
\* providerEarnings is gross - platformCommission, the two sum to gross,
\* and 10.0000000 gives 2.0000000 and 8.0000000.
C13_SplitExact ==
  resp.op = "calculateRevenueSplit" =>
    LET gross == resp.id
        split == resp.res
    IN /\ 5 * split.platformCommission - gross \in -2..2
       /\ split.providerEarnings = gross - split.platformCommission
       /\ split.platformCommission + split.providerEarnings = gross
       /\ gross = 100000000 =>
            split.platformCommission = 20000000 /\ split.providerEarnings = 80000000

\* The split of 0.0000003 has been computed: 0.00000006 rounds up to 0.0000001.
C13_RoundedUp ==
  resp = Resp("calculateRevenueSplit",
              [platformCommission |-> 1, providerEarnings |-> 2], 3)

\* C14 (SeqTierSpec): a subscribe to a FREE tier never reaches the payment
\* verification, and the subscription it creates is ACTIVE with amountPaid 0
\* and without a transaction hash, whatever updateTier made of the tier before.
C14_FreeSubscribeUnpaid ==
  [][/\ \A p \in Procs :
          procs'[p].pc = "subscribe_verify" => procs'[p].tier.level # "FREE"
     /\ \A s \in (Len(subs) + 1)..Len(subs') :
          tiers[subs'[s].tierId].level = "FREE" =>
            /\ subs'[s].status = "ACTIVE"
            /\ subs'[s].amountPaid = 0
            /\ subs'[s].stellarTxHash = Null]_vars

\* The expiry sweep of handler p takes a step.
ExpirySweepStep(p) ==
  \/ procs[p].pc = "idle" /\ procs'[p].pc = "handleExpired_update"
  \/ procs[p].pc \in {"handleExpired_update", "handleExpired_decrement"}
       /\ procs'[p] # procs[p]

\* C17 (LifecycleSpec): the expiry sweep leaves a subscription that is
\* already EXPIRED as it is: it does not select it, no step of it changes a
\* field of it, and the update that precedes each decrement is of a row that
\* was not EXPIRED, so the count is not decremented for it a second time.
C17_SweepSkipsExpired ==
  [][\A p \in Procs :
       ExpirySweepStep(p) =>
         /\ \A s \in 1..Len(subs) : subs[s].status = "EXPIRED" => subs'[s] = subs[s]
         /\ procs'[p].pc = "handleExpired_update" =>
              \A i \in 1..Len(procs'[p].todo) :
                subs[procs'[p].todo[i].id].status # "EXPIRED"
         /\ procs'[p].pc = "handleExpired_decrement" =>
              subs[Head(procs[p].todo).id].status # "EXPIRED"]_vars

\* The sweep has run again over the subscription an earlier run of it had
\* expired: it reports 0 expired rows, and the count is still 0.
C17_SecondSweepDone ==
  /\ resp = Resp("handleExpiredSubscriptions", "ok", 0)
  /\ subs[1].status = "EXPIRED"
  /\ ~subs[1].autoRenew
  /\ subs[1].paymentFailureCount = 0
  /\ subs[1].cancelledAt = NoDate
  /\ tiers[1].subscriberCount = 0
  /\ tiers[1].active

\* C18 (RaceSpec): however the sweeps overlap with cancelSubscription,
\* renewSubscription and each other, no step of a sweep changes the status of
\* a subscription that cancelSubscription made CANCELLED or a sweep made
\* EXPIRED, and the expiry sweep does not
\* decrement the count for a subscription for which an immediate
\* cancelSubscription in flight has already decremented it.
C18_SweepsAreSafe ==
  [][\A p \in Procs :
       /\ (procs[p].pc \in {"handleExpired_update", "handleSuspended_row"}
             /\ procs'[p] # procs[p]) =>
            \A s \in 1..Len(subs) :
              (subs[s].status \in {"CANCELLED", "EXPIRED"} /\ ~ProviderCancelled(subs[s])) =>
                subs'[s].status = subs[s].status
       /\ (procs[p].pc = "handleExpired_decrement" /\ procs'[p] # procs[p]
             /\ resp'.op # "crash") =>
            ~\E q \in Procs :
               /\ procs[q].pc = "cancelSubscription_save"
               /\ procs[q].subscriptionId = Head(procs[p].todo).id
               /\ procs[q].sub.status = "CANCELLED"]_vars

\* C19 (LifecycleSpec; one subscription on the tier, one handler at a time):
\* whenever no handler is in flight, after a crash too, the tier's
\* totalRevenue holds the first payment and every renewal that is stored on
\* the subscription, and an ACTIVE subscription of an active tier is counted
\* in subscriberCount.
C19_BothWritesOrNone ==
  Quiescent =>
    \A s \in 1..Len(subs) :
      LET tier == tiers[subs[s].tierId]
      IN /\ tier.totalRevenue = (1 + subs[s].renewalCount) * tier.price
         /\ (subs[s].status = "ACTIVE" /\ tier.active) => tier.subscriberCount >= 1

\* C15 (AccessSpec): checkAccess answers hasAccess=true exactly when the user
\* holds a subscription to the provider that is ACTIVE with periodEnd > now;
\* SUSPENDED, CANCELLED and EXPIRED subscriptions and ACTIVE ones whose period
\* has passed, swept or not, do not count.
C15_AccessIffActiveUnexpired ==
  resp.op = "checkAccess" =>
    (resp.res.hasAccess <=>
       \E s \in 1..Len(subs) : /\ subs[s].userId = resp.res.userId
                               /\ subs[s].providerId = resp.res.providerId
                               /\ subs[s].status = "ACTIVE"
                               /\ subs[s].periodEnd > now)

\* checkAccess has just denied u1 access to p1 while both subscriptions are
\* still ACTIVE: their period ended and the sweep has not run.
C15_DeniedBeforeSweep ==
  /\ resp.op = "checkAccess"
  /\ resp.res = AccessDenied("u1", "p1")
  /\ \A s \in 1..Len(subs) : subs[s].status = "ACTIVE" /\ subs[s].periodEnd <= now

\* C16 (AccessSpec): when checkAccess grants access, the subscription it
\* returns is one of the user's ACTIVE, unexpired subscriptions to the
\* provider, no other of them is to a tier of higher price, and the
\* signalLimit returned is that tier's (NoLimit for null).
C16_MostExpensiveChosen ==
  (resp.op = "checkAccess" /\ resp.res.hasAccess) =>
    LET chosen == resp.res.subscription
        held == {s \in 1..Len(subs) : /\ subs[s].userId = resp.res.userId
                                      /\ subs[s].providerId = resp.res.providerId
                                      /\ subs[s].status = "ACTIVE"
                                      /\ subs[s].periodEnd > now}
    IN /\ chosen \in held
       /\ \A o \in held : tiers[subs[o].tierId].price <= tiers[subs[chosen].tierId].price
       /\ resp.res.signalLimit = tiers[subs[chosen].tierId].signalLimit

\* u1 holds two ACTIVE, unexpired subscriptions to p1, and checkAccess has
\* just returned the one to the tier at 10.0000000, which has no limit.
C16_TwoHeldDearReturned ==
  /\ resp.op = "checkAccess"
  /\ resp.res.hasAccess
  /\ resp.res.subscription = 2
  /\ resp.res.signalLimit = NoLimit
  /\ \A s \in {1, 2} : subs[s].userId = "u1" /\ subs[s].status = "ACTIVE"
                        /\ subs[s].periodEnd > now
  /\ tiers[subs[1].tierId].price < tiers[subs[2].tierId].price
  /\ tiers[subs[1].tierId].signalLimit = 10

\* C21 (VerifySpec): verifySubscriptionPayment answers valid only when the
\* transaction holds a payment in USDC of the configured issuer, from the
\* expected sender to the expected receiver (letter case aside), of at least
\* the expected amount less 0.0000001; USDC of another issuer does not count.
C21_ValidOnlyForMatchingPayment ==
  (resp.op = "verifySubscriptionPayment" /\ resp.res.result.valid) =>
    \E i \in 1..Len(Ledger(resp.res.txHash)) :
      LET op == Ledger(resp.res.txHash)[i]
      IN /\ op.type = "payment"
         /\ op.asset_code = "USDC"
         /\ op.asset_issuer = USDC_ISSUER
         /\ ToLowerCase(op.from) = ToLowerCase(resp.res.senderWallet)
         /\ ToLowerCase(op.to) = ToLowerCase(resp.res.receiverWallet)
         /\ op.amount >= resp.res.expectedAmount - 1

\* txU2, which pays 9.9999999 from gu2, has been accepted for 10.0000000
\* expected from GU2: within the tolerance and with the case aside.
C21_ValidWithinTolerance ==
  /\ resp.op = "verifySubscriptionPayment"
  /\ resp.res.result.valid
  /\ resp.res.txHash = "txU2"
  /\ resp.res.senderWallet = "GU2"
  /\ resp.res.receiverWallet = "gp1"
  /\ resp.res.expectedAmount = 100000000

\* The step in which handler p commits subscribe's transaction.
SubscribeCommitted(p) ==
  /\ procs[p].pc = "subscribe_txn"
  /\ Len(subs') = Len(subs) + 1

C23_PriceFixedWhileSubscribed ==
  [][\A t \in 1..Len(tiers) :
       tiers[t].subscriberCount > 0 => tiers'[t].price = tiers[t].price]_vars

\* C27 (SeqTierSpec): a subscribe answered with a validation error creates
\* no subscription and changes no tier, and a subscribe commits only to a
\* tier that is active and accepting new subscribers and, unless the tier is
\* FREE, with a transaction that pays the tier price from the subscriber to
\* the provider.
C27_RejectedSubscribeChangesNothing ==
  [][/\ (resp'.op = "subscribe" /\ resp'.res = "BadRequest") =>
          subs' = subs /\ tiers' = tiers
     /\ \A p \in Procs :
          SubscribeCommitted(p) =>
            LET tier == tiers[procs[p].tierId]
            IN /\ tier.active /\ tier.acceptingNewSubscribers
               /\ tier.level # "FREE" =>
                    ScanOperations(Ledger(procs[p].txHash), 1, tier.price,
                                   UserWallet(procs[p].userId),
                                   ProviderWallet(tier.providerId)).valid]_vars

\* A subscribe to an open paid tier of p1 has just been rejected: the
\* transaction it cited did not verify, and there is no subscription.
C27_UnverifiedRejected ==
  /\ resp.op = "subscribe" /\ resp.res = "BadRequest"
  /\ tiers[resp.id].providerId = "p1"
  /\ tiers[resp.id].level # "FREE"
  /\ tiers[resp.id].active /\ tiers[resp.id].acceptingNewSubscribers
  /\ tiers[resp.id].subscriberCount = 0
  /\ subs = <<>>

\* C24 (LifecycleSpec): the save of cancelSubscription leaves the subscription
\* with autoRenew off and cancelledAt set to the time of the call; for an
\* immediate cancellation the status becomes CANCELLED and the step before
\* it takes one from the tier's subscriberCount, or leaves it at 0; otherwise
\* the handler changes neither the status nor any tier.
C24_CancelSubscriptionEffect ==
  [][\A p \in Procs :
       LET s == procs[p].subscriptionId
       IN /\ (procs[p].pc = "cancelSubscription_decrement"
                /\ procs'[p].pc = "cancelSubscription_save") =>
               LET t == subs[s].tierId
               IN /\ procs[p].sub.status = "CANCELLED"
                  /\ tiers'[t].subscriberCount =
                       IF tiers[t].subscriberCount > 0
                         THEN tiers[t].subscriberCount - 1 ELSE 0
          /\ (procs[p].pc = "cancelSubscription_save"
                /\ resp' = Resp("cancelSubscription", "ok", s)) =>
               /\ ~subs'[s].autoRenew
               /\ subs'[s].cancelledAt # NoDate
               /\ subs'[s].cancelledAt <= now
               /\ tiers' = tiers
               /\ IF procs[p].sub.status = "CANCELLED"
                    THEN subs'[s].status = "CANCELLED"
                    ELSE subs'[s].status = subs[s].status]_vars

\* An immediate cancelSubscription has just been saved for a subscription
\* whose tier counted no subscriber any more: the count is still 0.
C24_CancelledAtZero ==
  /\ resp = Resp("cancelSubscription", "ok", 1)
  /\ subs[1].status = "CANCELLED"
  /\ subs[1].cancellationReason \in Reasons
  /\ ~subs[1].autoRenew
  /\ subs[1].paymentFailureCount = MAX_PAYMENT_FAILURES
  /\ ~tiers[1].active
  /\ tiers[1].subscriberCount = 0

\* C25 (LifecycleSpec): a renewSubscription on a subscription with autoRenew
\* off or with status CANCELLED or EXPIRED answers with a validation error
\* without reaching the verification and changes nothing, and no renewal is
\* saved for a subscription that was cancelled.
C25_CancelledNeverRenews ==
  [][\A p \in Procs :
       /\ (procs[p].pc = "renewSubscription_getTier" /\ procs'[p] # procs[p]
             /\ resp'.op # "crash"
             /\ (~procs[p].sub.autoRenew
                   \/ procs[p].sub.status \in {"CANCELLED", "EXPIRED"})) =>
            /\ resp' = Resp("renewSubscription", "BadRequest", procs[p].subscriptionId)
            /\ procs'[p] = IdleProc
            /\ subs' = subs /\ tiers' = tiers
       /\ RenewalSaved(p) => subs[procs[p].subscriptionId].cancelledAt = NoDate]_vars

\* A renewSubscription has just been refused for a subscription that was
\* cancelled at period end: it is still ACTIVE, with autoRenew off.
C25_RefusedAfterCancel ==
  /\ resp = Resp("renewSubscription", "BadRequest", 1)
  /\ subs[1].status = "ACTIVE"
  /\ ~subs[1].autoRenew
  /\ subs[1].cancelledAt # NoDate
  /\ subs[1].paymentFailureCount = 0
  /\ subs[1].paymentStatus = "COMPLETED"

\* C26 (OwnerSpec): every updateTier and cancelTier call by a provider who
\* does not own the tier, and every cancelSubscription call by a user who
\* does not own the subscription, answers Forbidden, starts no handler and
\* changes no tier and no subscription.
C26_ForbiddenChangesNothing ==
  [][/\ \A p \in Procs, tierId \in 1..Len(tiers), providerId \in Providers :
          (/\ tiers[tierId].providerId # providerId
           /\ \/ \E dto \in UpdateTierDtos : UpdateTierCall(p, tierId, providerId, dto)
              \/ CancelTierCall(p, tierId, providerId)) =>
            /\ resp'.res = "Forbidden" /\ resp'.id = tierId
            /\ procs' = procs /\ tiers' = tiers /\ subs' = subs
     /\ \A p \in Procs, subscriptionId \in 1..Len(subs), userId \in Users :
          (/\ subs[subscriptionId].userId # userId
           /\ \E reason \in Reasons, immediate \in BOOLEAN :
                CancelSubscriptionCall(p, subscriptionId, userId, reason, immediate)) =>
            /\ resp' = Resp("cancelSubscription", "Forbidden", subscriptionId)
            /\ procs' = procs /\ tiers' = tiers /\ subs' = subs]_vars

\* cancelSubscription has just answered Forbidden after cancelTier did: the
\* tier is active and counts its subscriber, the subscription is as created.
C26_ForbiddenTwice ==
  /\ resp = Resp("cancelSubscription", "Forbidden", 1)
  /\ env.budget = 0
  /\ tiers[1] = SeedTier(1)
  /\ subs[1] \in {SeedSubscription(TRUE), SeedSubscription(FALSE)}
\* The positions of a job inside its loop.
SweepPcs == {"handleExpired_update", "handleExpired_decrement",
             "handleSuspended_row", "handleRenewal_notify"}

\* C28 (SweepSpec): in each of the three jobs an error on one row is logged
\* and skipped, so a run never ends while rows it selected are left: a job
\* that has more than the current row to do is still running after the step.
C28_ErrorSkipsOneRow ==
  [][\A p \in Procs :
       (procs[p].pc \in SweepPcs /\ Len(procs[p].todo) > 1) => procs'[p].pc \in SweepPcs]_vars

\* The ACTIVE rows with autoRenew whose renewsAt is an instant of the day of now.
RenewsToday ==
  {s \in 1..Len(subs) : /\ subs[s].status = "ACTIVE"
                        /\ subs[s].autoRenew
                        /\ subs[s].renewsAt \div HoursPerDay = now \div HoursPerDay}

\* C29 (SweepSpec): the reminder job run on day D selects every ACTIVE row
\* with autoRenew whose renewsAt is within day D, the hours before the run
\* included, and changes no row and no tier.
C29_ReminderCoversTheDay ==
  [][\A p \in Procs :
       HandleRenewalNotificationsCall(p) =>
         /\ RenewsToday =
              IF procs'[p].pc = "idle" THEN {}
              ELSE {procs'[p].todo[i].id : i \in 1..Len(procs'[p].todo)}
         /\ subs' = subs /\ tiers' = tiers]_vars

\* C30 (SweepFairSpec): with the jobs running, every row whose period has
\* passed ends EXPIRED with autoRenew = FALSE and its tier's count decremented
\* once: from some point on, no EXPIRED row has autoRenew, and with no job
\* running the tier counts the rows that are not EXPIRED.
\* No job selects an EXPIRED row (getExpiredSubscriptions asks for ACTIVE or
\* SUSPENDED), so a row that is EXPIRED with autoRenew stays so on every later
\* day, however long the jobs run.
C30_ExpiredIsFinalised ==
  <>[](/\ \A s \in 1..Len(subs) : subs[s].status = "EXPIRED" => ~subs[s].autoRenew
       /\ Quiescent =>
            tiers[1].subscriberCount =
              Cardinality({s \in 1..Len(subs) : subs[s].status # "EXPIRED"}))

\* The allowed table of ticket transitions, as pairs.
TicketTable ==
  {<<"OPEN", "IN_PROGRESS">>, <<"OPEN", "CLOSED">>,
   <<"IN_PROGRESS", "PENDING_CUSTOMER">>, <<"IN_PROGRESS", "RESOLVED">>,
   <<"PENDING_CUSTOMER", "IN_PROGRESS">>, <<"PENDING_CUSTOMER", "CLOSED">>,
   <<"RESOLVED", "CLOSED">>, <<"RESOLVED", "IN_PROGRESS">>}

C32_ValidForAnyMatchingOperation ==
  (/\ resp.op = "verifySubscriptionPayment"
   /\ resp.res.network = "ok"
   /\ \E i \in 1..Len(Ledger(resp.res.txHash)) :
        LET op == Ledger(resp.res.txHash)[i]
        IN /\ op.type = "payment"
           /\ IsUsdc(op)
           /\ ToLowerCase(op.from) = ToLowerCase(resp.res.senderWallet)
           /\ ToLowerCase(op.to) = ToLowerCase(resp.res.receiverWallet)
           /\ op.amount >= resp.res.expectedAmount - TOLERANCE)
    => resp.res.result.valid

\* C33 (RenewRaceSpec): a renewal that succeeds adds the price to the tier's
\* totalRevenue as an atomic add: the step that writes the revenue leaves it
\* at what the table held before the step plus the price, whatever other
\* handlers wrote since the renewal read the tier.
C33_RenewalAddsToRevenue ==
  [][\A p \in Procs :
       RenewSubscriptionUpdateRevenue(p) =>
         LET t == procs[p].sub.tierId
         IN tiers'[t].totalRevenue = tiers[t].totalRevenue + tiers[t].price]_vars

\* The fields of a subscription that a failed renewal leaves alone.
FailedRenewalFrame(row) ==
  [row EXCEPT !.paymentFailureCount = 0, !.lastFailureReason = Null,
              !.paymentStatus = "FAILED", !.status = "ACTIVE"]

\* C34 (LifecycleSpec): the writes of a failed renewSubscription (the
\* suspension at the limit and the save) change only paymentFailureCount, by
\* one, lastFailureReason, paymentStatus, to FAILED, and status, to SUSPENDED
\* and only when the count reaches 3: the periods, renewsAt, renewalCount,
\* amountPaid, autoRenew and every other field of the subscription, and the
\* tier, are as before.
C34_FailedRenewalFrame ==
  [][\A p \in Procs :
       (/\ procs[p].pc \in {"renewSubscription_suspend", "renewSubscription_saveFailed"}
        /\ procs'[p] # procs[p]) =>
         LET s == procs[p].subscriptionId
         IN /\ tiers' = tiers
            /\ \A o \in 1..Len(subs) : o # s => subs'[o] = subs[o]
            /\ FailedRenewalFrame(subs'[s]) = FailedRenewalFrame(subs[s])
            /\ subs'[s].status # subs[s].status =>
                 subs'[s].status = "SUSPENDED" /\ procs[p].sub.paymentFailureCount >= 3
            /\ resp'.res = "BadRequest" =>
                 /\ subs'[s].paymentFailureCount = subs[s].paymentFailureCount + 1
                 /\ subs'[s].paymentStatus = "FAILED"]_vars

\* The first failed renewal of a subscription has just been saved, a period
\* after it began: one failure, still ACTIVE, the tier as it was.
C34_FirstFailureSaved ==
  /\ resp = Resp("renewSubscription", "BadRequest", 1)
  /\ now = 30
  /\ subs[1].paymentFailureCount = 1
  /\ subs[1].paymentStatus = "FAILED"
  /\ subs[1].status = "ACTIVE"
  /\ subs[1].autoRenew
  /\ subs[1].periodEnd = BILLING_CYCLE_DAYS
  /\ tiers[1].subscriberCount = 1

\* C35 (SeqTierSpec): in every reachable state each ACTIVE subscription is
\* to a tier with active = TRUE, whatever subscribe, renewSubscription,
\* updateTier and cancelTier did.
C35_ActiveOnlyOnActiveTier ==
  \A s \in 1..Len(subs) : subs[s].status = "ACTIVE" => tiers[subs[s].tierId].active

\* C36 (CountSpec): with one handler at a time, whenever no handler runs a
\* tier's subscriberCount is the number of its subscriptions that are ACTIVE
\* or SUSPENDED: every way into CANCELLED or EXPIRED takes one from the count.
C36_CountIsHeldSubscriptions ==
  Quiescent =>
    \A t \in 1..Len(tiers) :
      tiers[t].subscriberCount =
        Cardinality({s \in SubscriptionsOf(t) : subs[s].status \in {"ACTIVE", "SUSPENDED"}})

\* C37 (LifecycleSpec): a transaction hash pays once: the hash a successful
\* renewal is saved with is not the hash that already paid for a subscription
\* (the stellarTxHash its row holds from the subscribe or the last renewal).
C37_HashPaysOnce ==
  [][\A p \in Procs :
       RenewalSaved(p) =>
         \A s \in 1..Len(subs) :
           subs[s].stellarTxHash # subs'[procs[p].subscriptionId].stellarTxHash]_vars

\* The totalRevenue accumulators of a provider's tiers, added up.
RECURSIVE SumTotalRevenue(_)
SumTotalRevenue(ts) ==
  IF ts = {} THEN 0
  ELSE LET t == CHOOSE x \in ts : TRUE
       IN tiers[t].totalRevenue + SumTotalRevenue(ts \ {t})

\* C38 (RevenueSpec): after subscribes and renewals, successful or failed,
\* the totalRevenue of the provider's revenue summary is the sum of the
\* totalRevenue of the provider's tiers, and its platformCommissionPaid and
\* netEarnings add up to it.
C38_SummaryMatchesTiers ==
  resp.op = "getProviderRevenueSummary" =>
    /\ resp.res.totalRevenue =
         SumTotalRevenue({t \in 1..Len(tiers) : tiers[t].providerId = resp.res.providerId})
    /\ resp.res.platformCommissionPaid + resp.res.netEarnings = resp.res.totalRevenue

\* The renewal of p pays with a transaction of its own: at most two calls
\* have been made, and the hash of p is not the one the row holds.
OwnPayment(p) ==
  /\ env.budget >= MaxRenewRaceCalls - 2
  /\ procs[p].txHash # subs[procs[p].subscriptionId].stellarTxHash

\* C39 (RenewRaceSpec): every renewal paid with a transaction of its own that
\* is saved, whatever other renewals of the same subscription run beside it,
\* takes renewalCount up by one and periodEnd on by one billing cycle from
\* what the stored row held.
C39_NoPaidRenewalLost ==
  [][\A p \in Procs :
       (RenewalSaved(p) /\ OwnPayment(p)) =>
         LET s == procs[p].subscriptionId
         IN /\ subs'[s].renewalCount = subs[s].renewalCount + 1
            /\ subs'[s].periodEnd = subs[s].periodEnd + BILLING_CYCLE_DAYS]_vars

\* C40 (RenewRaceSpec): right after the save of a renewal paid with a
\* transaction of its own, however long after the old periodEnd, the
\* subscription is ACTIVE with periodEnd > now: it is a row of checkAccess's
\* query and not a row of the expiry sweep's.
C40_RenewedIsCurrent ==
  [][\A p \in Procs :
       (RenewalSaved(p) /\ OwnPayment(p)) =>
         LET s == procs[p].subscriptionId
         IN /\ subs'[s].status = "ACTIVE"
            /\ subs'[s].periodEnd > now'
            /\ s \in AccessCandidates(subs[s].userId, subs[s].providerId)'
            /\ s \notin GetExpiredSubscriptions']_vars

====
